---- MODULE Spec2Model ----
(***************************************************************************)
(* Model of the SHL assessment recommender (src/recommendation_system):   *)
(* the Qdrant-backed vector store and its provisioning, the catalog build, *)
(* the recommendation engine (direct / enhanced / from URL), the standalone *)
(* recommender over the in-memory samples, the evaluation metrics, the     *)
(* /recommend-from-url endpoint, and recommend requests served side by     *)
(* side, one code step at a time.                                          *)
(*                                                                         *)
(* Conventions of the model                                                *)
(*  - a text is the sequence of its whitespace-delimited words;            *)
(*  - a CSV field is a sequence of tokens, "," being the separator and     *)
(*    " " a blank;                                                         *)
(*  - a Python str value is [kind |-> "str", val |-> <<s>>], a Python list  *)
(*    of str is [kind |-> "list", val |-> <<s1, ..., sn>>];                *)
(*  - a Python dict is the sequence of its items in insertion order;       *)
(*  - an embedding is a vector over {-1, 0, 1} of length VectorSize;       *)
(*  - a cosine similarity c is represented by ScoreScale * sgn(c) * c^2,   *)
(*    an integer that is strictly increasing in c on [-1, 1].              *)
(***************************************************************************)
EXTENDS Integers, Sequences, FiniteSets, TLC

VARIABLES
    config,      \* the Qdrant collection of the configured name: whether it
                 \* exists, and the vector size and distance it was created with
    ties,        \* the order in which the engine in use (Qdrant Cloud or the
                 \* local one) returns equally scored points
    collection,  \* the points of the Qdrant collection: [id, vector, payload]
    built,       \* the source file of the last completed build, if no other
                 \* write happened since (history variable), else NoFile
    pc,          \* "idle": no call in progress; "done": a call has ended
    call,        \* the arguments of the call that ended
    ret,         \* its outcome: [kind |-> "returned" | "raised", value |-> ...]
    log,         \* the external calls it made, in order
    requests     \* the recommend requests in progress side by side: for each
                 \* thread its position in the code and its local variables

vars == <<config, ties, collection, built, pc, call, ret, log, requests>>

-----------------------------------------------------------------------------
(* Bounds *)

MaxBatch == 2      \* longest vector / payload / row list of one call
VectorSize == 2    \* dimensionality of the embedding space
MaxTokens == 3     \* word budget of get_embedding
BatchSize == 100
MaxRelevant == 2   \* longest list of relevant names
MaxRetrieved == 3  \* longest list of retrieved records
MaxQueries == 2    \* longest list of test queries

MaxLimit == MaxBatch + 1

-----------------------------------------------------------------------------
(* Generic helpers *)

Range(s) == {s[i] : i \in 1..Len(s)}

Min(a, b) == IF a < b THEN a ELSE b

SeqsUpTo(S, n) == UNION {[1..m -> S] : m \in 0..n}

RECURSIVE Fact(_)
Fact(n) == IF n <= 1 THEN 1 ELSE n * Fact(n - 1)

RECURSIVE SumTo(_, _)
SumTo(f, n) == IF n = 0 THEN 0 ELSE f[n] + SumTo(f, n - 1)

Sgn(x) == IF x > 0 THEN 1 ELSE IF x < 0 THEN -1 ELSE 0

NoRepeats(l) == \A i \in 1..Len(l), j \in 1..Len(l) : l[i] = l[j] => i = j

Str(s) == [kind |-> "str", val |-> <<s>>]
List(l) == [kind |-> "list", val |-> l]

-----------------------------------------------------------------------------
(* Embedding provider and language model (external collaborators) *)

Dims == 1..VectorSize

ZeroVector == [i \in Dims |-> 0]

UnitVector(a) == [i \in Dims |-> IF i = a THEN 1 ELSE 0]

\* The direction the embedding model gives a word.
WordVec(w) ==
    CASE w \in {"sales", "skills", "A"} -> UnitVector(1)
      [] w \in {"java", "B"} -> UnitVector(2)
      [] OTHER -> ZeroVector

Clamp(x) == IF x > 1 THEN 1 ELSE IF x < -1 THEN -1 ELSE x

\* client.embeddings.create(input=text) on success: a deterministic function
\* of the text it is sent.
ProviderEmbed(text) ==
    [i \in Dims |-> Clamp(SumTo([k \in 1..Len(text) |-> WordVec(text[k])[i]], Len(text)))]

\* client.chat.completions.create(...) on success: the extracted skills.
Rewrite(query) == <<"skills">>

\* Mutant of the truncation: the last max_tokens words are kept.
Truncate_Suffix(text) ==
    IF Len(text) > MaxTokens THEN SubSeq(text, Len(text) - MaxTokens + 1, Len(text)) ELSE text

\* " ".join(text.split()[:max_tokens]) when text has more than max_tokens
\* words, else text: what get_embedding sends to the provider.
Truncate(text) == IF Len(text) > MaxTokens THEN SubSeq(text, 1, MaxTokens) ELSE text

\* Mutant of get_embedding: a vector of ones when the provider raises.
GetEmbedding_Ones(text, embedOK) ==
    IF embedOK THEN ProviderEmbed(Truncate(text)) ELSE [i \in Dims |-> 1]

\* get_embedding: truncate, call the provider, zero vector when it raises.
GetEmbedding(text, embedOK) ==
    IF embedOK THEN ProviderEmbed(Truncate(text)) ELSE ZeroVector

\* client.embeddings.create(input=batch) raises when it rejects one of the
\* texts of the batch: the 0-based start indices of the batches that hold a
\* text (1-based position in bad) the provider rejects.
FailedBatches(bad, batch_size) == {((i - 1) \div batch_size) * batch_size : i \in bad}

\* batch_get_embeddings: texts[i:i+batch_size] per provider call; a batch whose
\* call raises (its 0-based start index is in failed) gets zero vectors.
BatchGetEmbeddings(texts, batch_size, failed) ==
    [i \in 1..Len(texts) |->
        IF (((i - 1) \div batch_size) * batch_size) \in failed
        THEN ZeroVector
        ELSE ProviderEmbed(texts[i])]

-----------------------------------------------------------------------------
(* utils/data_processor.py *)

\* str.split(','): the pieces between the separators.
RECURSIVE SplitComma(_)
SplitComma(s) ==
    IF \A i \in 1..Len(s) : s[i] # ","
    THEN <<s>>
    ELSE LET c == CHOOSE i \in 1..Len(s) : s[i] = "," /\ \A j \in 1..(i - 1) : s[j] # ","
         IN <<SubSeq(s, 1, c - 1)>> \o SplitComma(SubSeq(s, c + 1, Len(s)))

\* str.strip() of a piece holding at most one label: the label, or "".
Strip(piece) ==
    LET keep == SelectSeq(piece, LAMBDA t : t # " ")
    IN IF keep = <<>> THEN "" ELSE keep[1]

\* prepare_assessment_data: combined_text of a row, as words.
CombinedText(row) ==
    <<row.name>> \o row.description \o <<"Test", "type:">>
        \o SelectSeq(row.test_type, LAMBDA t : t \notin {",", " "})

\* create_assessment_payloads, one row: test_type is split on commas and kept
\* as a scalar when there is one piece, as a list otherwise.
RowPayload(row) ==
    LET pieces == SplitComma(row.test_type)
        test_types == [i \in 1..Len(pieces) |-> Strip(pieces[i])]
    IN [name |-> row.name,
        remote_testing |-> row.remote_testing,
        adaptive_irt |-> row.adaptive_irt,
        test_type |-> IF Len(test_types) = 1 THEN Str(test_types[1]) ELSE List(test_types)]

CreateAssessmentPayloads(df) == [i \in 1..Len(df) |-> RowPayload(df[i])]

\* The rows a source file may hold (after fillna).
Rows ==
    { [name |-> "A", description |-> <<"sales">>, remote_testing |-> "Yes",
       adaptive_irt |-> "Yes", test_type |-> <<"P", ",", " ", "K">>],
      [name |-> "B", description |-> <<"java">>, remote_testing |-> "No",
       adaptive_irt |-> "No", test_type |-> <<"K">>],
      [name |-> "C", description |-> <<"sales", "java">>, remote_testing |-> "Yes",
       adaptive_irt |-> "No", test_type |-> <<"S">>] }

\* name is unique within a catalog snapshot.
UniqueNames(l) == \A i \in 1..Len(l), j \in 1..Len(l) : l[i].name = l[j].name => i = j

SourceFiles == {df \in SeqsUpTo(Rows, MaxBatch) : UniqueNames(df)}

NoFile == [valid |-> FALSE, file |-> <<>>]

-----------------------------------------------------------------------------
(* utils/vector_store.py: the Qdrant service as the store uses it *)

Dot(a, b) == SumTo([i \in Dims |-> a[i] * b[i]], VectorSize)

ScoreScale == Fact(VectorSize) * Fact(VectorSize)

\* Mutant of the score: the dot product, vectors not normalised.
CosineScore_Dot(q, v) == Dot(q, v) * ScoreScale

\* Cosine distance of the collection (Distance.COSINE): the score of a stored
\* vector against the query vector; 0 when either has no direction.
CosineScore(q, v) ==
    LET d == Dot(q, v)
        n == Dot(q, q) * Dot(v, v)
    IN IF n = 0 THEN 0 ELSE (Sgn(d) * d * d * ScoreScale) \div n

\* The values a payload holds under a key: the scalar, or each element of a
\* list-valued field; nothing when the payload has no such key.
FieldValues(payload, key) ==
    IF key \notin DOMAIN payload THEN {}
    ELSE IF key = "test_type" THEN Range(payload[key].val)
    ELSE {payload[key]}

\* FieldCondition: MatchValue(value) holds when a value of the field equals
\* it, MatchAny(any) when a value of the field is one of any.
SatisfiesCondition(payload, cond) ==
    IF cond.match = "any"
    THEN FieldValues(payload, cond.key) \cap Range(cond.value) # {}
    ELSE cond.value[1] \in FieldValues(payload, cond.key)

\* Filter(must=conditions): every condition holds.
SatisfiesFilter(payload, must) ==
    \A i \in 1..Len(must) : SatisfiesCondition(payload, must[i])

\* The orders in which an engine may return equally scored points.
TieOrders == {"ascending id", "descending id"}

\* The engine's order of two scored points: higher score first, equal scores
\* in the engine's order of their ids.
RanksBefore(q, a, b) ==
    \/ CosineScore(q, a.vector) > CosineScore(q, b.vector)
    \/ /\ CosineScore(q, a.vector) = CosineScore(q, b.vector)
       /\ IF ties = "ascending id" THEN a.id <= b.id ELSE a.id >= b.id

RECURSIVE TopHits(_, _, _)
TopHits(points, q, n) ==
    IF n <= 0 \/ points = {} THEN <<>>
    ELSE LET best == CHOOSE p \in points : \A r \in points : RanksBefore(q, p, r)
         IN <<[payload |-> best.payload, score |-> CosineScore(q, best.vector)]>>
                \o TopHits(points \ {best}, q, n - 1)

\* client.search(collection_name, query_vector, limit, query_filter): the
\* limit best-scoring points among those the filter admits.
ClientSearch(points, query_vector, limit, query_filter) ==
    TopHits({p \in points : SatisfiesFilter(p.payload, query_filter)}, query_vector, limit)

\* Mutant of the upsert: the collection holds the new points only.
ClientUpsert_Replace(points, new) == Range(new)

\* client.upsert(points): a point replaces the stored point of the same id.
ClientUpsert(points, new) ==
    {p \in points : \A i \in 1..Len(new) : new[i].id # p.id} \cup Range(new)

\* The collection of the configured name, before and after its creation.
NoCollection == [exists |-> FALSE, size |-> 0, distance |-> "none"]

CreatedCollection(vector_size) == [exists |-> TRUE, size |-> vector_size, distance |-> "Cosine"]

\* Mutant of __init__: the collection is created anew at every construction.
ConstructOutcome_Recreate(conf, points, vector_size, getOK) ==
    [kind |-> "returned", config |-> CreatedCollection(vector_size), points |-> {}]

\* QdrantVectorStore.__init__: get_collection, and create_collection when
\* that raises. get_collection raises for a collection that does not exist
\* and when the service cannot answer (~getOK); create_collection raises for
\* a collection that exists.
ConstructOutcome(conf, points, vector_size, getOK) ==
    IF conf.exists /\ getOK
    THEN [kind |-> "returned", config |-> conf, points |-> points]
    ELSE IF conf.exists
    THEN [kind |-> "raised", config |-> conf, points |-> points]
    ELSE [kind |-> "returned", config |-> CreatedCollection(vector_size), points |-> {}]

\* Mutant of _build_filter: keys other than the three filter keys compile to
\* nothing.
BuildFilter_KnownKeysOnly(filters) ==
    LET known == SelectSeq(filters, LAMBDA item :
                     item.key \in {"remote_testing", "adaptive_irt", "test_type"})
    IN [i \in 1..Len(known) |->
           [key |-> known[i].key,
            match |-> IF known[i].key = "test_type" /\ known[i].value.kind = "list"
                      THEN "any" ELSE "value",
            value |-> known[i].value.val]]

\* Mutant of _build_filter: the loop ends after the first item of the dict.
BuildFilter_FirstItemOnly(filters) ==
    IF filters = <<>> THEN <<>>
    ELSE LET item == Head(filters)
         IN IF item.key = "test_type" /\ item.value.kind = "list"
            THEN IF Len(item.value.val) > 0
                 THEN <<[key |-> item.key, match |-> "any", value |-> item.value.val]>>
                 ELSE <<>>
            ELSE <<[key |-> item.key, match |-> "value", value |-> item.value.val]>>

\* QdrantVectorStore._build_filter: one condition per item of the dict.
RECURSIVE BuildFilter(_)
BuildFilter(filters) ==
    IF filters = <<>> THEN <<>>
    ELSE LET item == Head(filters)
             rest == BuildFilter(Tail(filters))
         IN IF item.key = "test_type" /\ item.value.kind = "list"
            THEN IF Len(item.value.val) > 0
                 THEN <<[key |-> item.key, match |-> "any", value |-> item.value.val]>> \o rest
                 ELSE rest
            ELSE <<[key |-> item.key, match |-> "value", value |-> item.value.val]>> \o rest

\* QdrantVectorStore.search: the hits' payloads, each with its relevance_score.
FormatHit(hit) ==
    [name |-> hit.payload.name,
     remote_testing |-> hit.payload.remote_testing,
     adaptive_irt |-> hit.payload.adaptive_irt,
     test_type |-> hit.payload.test_type,
     relevance_score |-> hit.score]

\* Mutants of search: the limit is not handed to the engine (its default of 10
\* applies); the filters are not handed to the engine.
Search_DefaultLimit(points, query_vector, limit, filters) ==
    LET query_filter == IF Len(filters) > 0 THEN BuildFilter(filters) ELSE <<>>
        results == ClientSearch(points, query_vector, 10, query_filter)
    IN [i \in 1..Len(results) |-> FormatHit(results[i])]

Search_NoFilter(points, query_vector, limit, filters) ==
    LET results == ClientSearch(points, query_vector, limit, <<>>)
    IN [i \in 1..Len(results) |-> FormatHit(results[i])]

Search(points, query_vector, limit, filters) ==
    LET query_filter == IF Len(filters) > 0 THEN BuildFilter(filters) ELSE <<>>
        results == ClientSearch(points, query_vector, limit, query_filter)
    IN [i \in 1..Len(results) |-> FormatHit(results[i])]

\* QdrantVectorStore.add_vectors: what the call does to the collection.
\*   np.array(vectors).shape[1] exists only for a non-empty list of vectors of
\*   one common length; the list comprehension zips vectors with payloads.
Rectangular(vectors) ==
    /\ Len(vectors) > 0
    /\ \A i \in 1..Len(vectors) : Len(vectors[i]) = Len(vectors[1])

\* Mutant of the point list: ids counted from 1.
ZipPoints_FromOne(vectors, payloads) ==
    [i \in 1..Min(Len(vectors), Len(payloads)) |->
        [id |-> i, vector |-> vectors[i], payload |-> payloads[i]]]

ZipPoints(vectors, payloads) ==
    [i \in 1..Min(Len(vectors), Len(payloads)) |->
        [id |-> i - 1, vector |-> vectors[i], payload |-> payloads[i]]]

\* Mutant of add_vectors: ids continue after the points already stored.
AddVectorsOutcome_FreshIds(points, vectors, payloads) ==
    IF ~Rectangular(vectors)
    THEN [kind |-> "raised", value |-> "shape", points |-> points]
    ELSE IF Len(vectors[1]) # VectorSize
    THEN [kind |-> "raised", value |-> "ValueError", points |-> points]
    ELSE [kind |-> "returned", value |-> "None",
          points |-> points \cup
              {[id |-> Cardinality(points) + i - 1, vector |-> vectors[i], payload |-> payloads[i]] :
                  i \in 1..Min(Len(vectors), Len(payloads))}]

AddVectorsOutcome(points, vectors, payloads) ==
    IF ~Rectangular(vectors)
    THEN [kind |-> "raised", value |-> "shape", points |-> points]
    ELSE IF Len(vectors[1]) # VectorSize
    THEN [kind |-> "raised", value |-> "ValueError", points |-> points]
    ELSE [kind |-> "returned", value |-> "None",
          points |-> ClientUpsert(points, ZipPoints(vectors, payloads))]

-----------------------------------------------------------------------------
(* models/recommender.py and main.py *)

NoneVal == [kind |-> "none", val |-> <<>>]

\* dict.get(key): the value of the item with that key, None without one.
Get(d, key) ==
    IF \E i \in 1..Len(d) : d[i].key = key
    THEN d[CHOOSE i \in 1..Len(d) : d[i].key = key].value
    ELSE NoneVal

\* len() of a str or list value.
PyLen(v) == IF v.kind = "list" THEN Len(v.val) ELSE IF v.val = <<"">> THEN 0 ELSE 1

\* BaseRecommender._prepare_filters
PrepareFilters(remote_testing, adaptive_irt, test_types) ==
    (IF remote_testing # NoneVal
        THEN <<[key |-> "remote_testing", value |-> remote_testing]>> ELSE <<>>)
    \o (IF adaptive_irt # NoneVal
        THEN <<[key |-> "adaptive_irt", value |-> adaptive_irt]>> ELSE <<>>)
    \o (IF test_types # NoneVal /\ PyLen(test_types) > 0
        THEN <<[key |-> "test_type", value |-> test_types]>> ELSE <<>>)

\* Mutant of _enhance_query_with_gpt: the rewritten text comes first.
EnhanceQueryWithGpt_RewriteFirst(query, rewriteOK) ==
    IF rewriteOK THEN Rewrite(query) \o query ELSE query

\* Mutant of _enhance_query_with_gpt: the empty string when the call raises.
EnhanceQueryWithGpt_Empty(query, rewriteOK) ==
    IF rewriteOK THEN query \o Rewrite(query) ELSE <<>>

\* BaseRecommender._enhance_query_with_gpt: query + " " + rewritten text, the
\* query itself when the chat completion raises.
EnhanceQueryWithGpt(query, rewriteOK) ==
    IF rewriteOK THEN query \o Rewrite(query) ELSE query

\* BaseRecommender.process_query: embed, prepare the filters, search.
ProcessQuery(points, query, remote_testing, adaptive_irt, test_types, limit, embedOK) ==
    LET query_embedding == GetEmbedding(query, embedOK)
        filters == PrepareFilters(remote_testing, adaptive_irt, test_types)
    IN [kind |-> "returned",
        value |-> Search(points, query_embedding, limit, filters),
        log |-> <<[api |-> "embed", input |-> query, sent |-> Truncate(query), ok |-> embedOK],
                  [api |-> "search", input |-> query_embedding, ok |-> TRUE]>>]

\* BaseRecommender.enhanced_recommendations
EnhancedRecommendations(points, query, remote_testing, adaptive_irt, test_types, limit, rewriteOK, embedOK) ==
    LET enhanced_query == EnhanceQueryWithGpt(query, rewriteOK)
        out == ProcessQuery(points, enhanced_query, remote_testing, adaptive_irt,
                            test_types, limit, embedOK)
    IN [out EXCEPT !.log = <<[api |-> "rewrite", input |-> query, ok |-> rewriteOK]>> \o @]

\* Mutant of recommend: the filters dict is handed to the search as it is,
\* but for its None values.
RecommendOutcome_PassThrough(points, query, top_k, enhanced, filters, rewriteOK, embedOK) ==
    LET text == IF enhanced THEN EnhanceQueryWithGpt(query, rewriteOK) ELSE query
        query_embedding == GetEmbedding(text, embedOK)
        given == SelectSeq(filters, LAMBDA item : item.value # NoneVal)
    IN [kind |-> "returned",
        value |-> Search(points, query_embedding, top_k, given),
        log |-> <<[api |-> "embed", input |-> text, sent |-> Truncate(text), ok |-> embedOK],
                  [api |-> "search", input |-> query_embedding, ok |-> TRUE]>>]

\* SHLRecommender.recommend
RecommendOutcome(points, query, top_k, enhanced, filters, rewriteOK, embedOK) ==
    LET remote_testing == IF Len(filters) > 0 THEN Get(filters, "remote_testing") ELSE NoneVal
        adaptive_irt == IF Len(filters) > 0 THEN Get(filters, "adaptive_irt") ELSE NoneVal
        test_types == IF Len(filters) > 0 THEN Get(filters, "test_type") ELSE NoneVal
    IN IF enhanced
       THEN EnhancedRecommendations(points, query, remote_testing, adaptive_irt,
                                    test_types, top_k, rewriteOK, embedOK)
       ELSE ProcessQuery(points, query, remote_testing, adaptive_irt, test_types,
                         top_k, embedOK)

\* The page behind a URL and the text left of it once tags are removed and
\* whitespace is collapsed.
Page(url) == <<"<p>", "java", "</p>">>

ExtractText(page) == SelectSeq(page, LAMBDA t : t \notin {"<p>", "</p>"})

\* Mutant of recommend_from_url: a failed fetch is answered with an empty list
\* (what streamlit_app/standalone_app.py does).
RecommendFromUrlOutcome_EmptyList(points, url, top_k, enhanced, filters, fetchOK, rewriteOK, embedOK) ==
    IF ~fetchOK
    THEN [kind |-> "returned", value |-> <<>>,
          log |-> <<[api |-> "fetch", input |-> url, ok |-> FALSE]>>]
    ELSE LET out == RecommendOutcome(points, ExtractText(Page(url)), top_k, enhanced,
                                     filters, rewriteOK, embedOK)
         IN [out EXCEPT !.log = <<[api |-> "fetch", input |-> url, ok |-> TRUE]>> \o @]

\* SHLRecommender.recommend_from_url: any exception of the fetch is raised
\* again as Exception; otherwise the answer of recommend on the page's text.
RecommendFromUrlOutcome(points, url, top_k, enhanced, filters, fetchOK, rewriteOK, embedOK) ==
    IF ~fetchOK
    THEN [kind |-> "raised", value |-> "Exception",
          log |-> <<[api |-> "fetch", input |-> url, ok |-> FALSE]>>]
    ELSE LET out == RecommendOutcome(points, ExtractText(Page(url)), top_k, enhanced,
                                     filters, rewriteOK, embedOK)
         IN [out EXCEPT !.log = <<[api |-> "fetch", input |-> url, ok |-> TRUE]>> \o @]

\* build_embeddings: rows -> texts -> embeddings -> payloads -> add_vectors.
BuildOutcome(points, df, failed) ==
    LET texts == [i \in 1..Len(df) |-> CombinedText(df[i])]
        embeddings == BatchGetEmbeddings(texts, BatchSize, failed)
        payloads == CreateAssessmentPayloads(df)
    IN AddVectorsOutcome(points, embeddings, payloads)

-----------------------------------------------------------------------------
(* streamlit_app/standalone_app.py: the recommender over the in-memory samples *)

\* SAMPLE_ASSESSMENTS, in catalog order; text stands for the combined text of
\* SAMPLE_EMBEDDINGS. A and D embed to one direction.
SampleAssessments ==
    << [name |-> "A", text |-> <<"sales">>, remote_testing |-> "Yes",
        adaptive_irt |-> "Yes", test_type |-> <<"P", ",", " ", "K">>],
       [name |-> "D", text |-> <<"skills">>, remote_testing |-> "Yes",
        adaptive_irt |-> "No", test_type |-> <<"K", ",", " ", "S">>],
       [name |-> "B", text |-> <<"java">>, remote_testing |-> "No",
        adaptive_irt |-> "No", test_type |-> <<"K">>] >>

\* assessment["test_type"].split(", ")
AssessmentTypes(assessment) ==
    LET pieces == SplitComma(assessment.test_type)
    IN {Strip(pieces[i]) : i \in 1..Len(pieces)}

\* The filter loop of recommend: the assessment is skipped.
Skipped(assessment, filters) ==
    \E i \in 1..Len(filters) :
        IF filters[i].key = "test_type" /\ filters[i].value.kind = "list"
        THEN AssessmentTypes(assessment) \cap Range(filters[i].value.val) = {}
        ELSE /\ filters[i].key \in DOMAIN assessment
             /\ <<assessment[filters[i].key]>> # filters[i].value.val

\* Mutant of the sort: of equally scored results the last comes first.
RECURSIVE StableSortDesc_LastFirst(_)
StableSortDesc_LastFirst(results) ==
    IF results = <<>> THEN <<>>
    ELSE LET best == CHOOSE i \in 1..Len(results) :
                 /\ \A j \in 1..Len(results) :
                       results[j].relevance_score <= results[i].relevance_score
                 /\ \A j \in (i + 1)..Len(results) :
                       results[j].relevance_score < results[i].relevance_score
         IN <<results[best]>> \o
            StableSortDesc_LastFirst(SubSeq(results, 1, best - 1)
                                         \o SubSeq(results, best + 1, Len(results)))

\* results.sort(key=relevance_score, reverse=True): by descending score, the
\* sort being stable.
RECURSIVE StableSortDesc(_)
StableSortDesc(results) ==
    IF results = <<>> THEN <<>>
    ELSE LET best == CHOOSE i \in 1..Len(results) :
                 /\ \A j \in 1..Len(results) :
                       results[j].relevance_score <= results[i].relevance_score
                 /\ \A j \in 1..(i - 1) :
                       results[j].relevance_score < results[i].relevance_score
         IN <<results[best]>> \o
            StableSortDesc(SubSeq(results, 1, best - 1)
                               \o SubSeq(results, best + 1, Len(results)))

\* recommend of the standalone app, the embedding provider answering.
StandaloneRecommend(query, top_k, filters) ==
    LET query_embedding == GetEmbedding(query, TRUE)
        kept == SelectSeq(SampleAssessments, LAMBDA a : ~Skipped(a, filters))
        results == [i \in 1..Len(kept) |->
                       [name |-> kept[i].name,
                        relevance_score |->
                            CosineScore(query_embedding, GetEmbedding(kept[i].text, TRUE))]]
        sorted == StableSortDesc(results)
    IN SubSeq(sorted, 1, Min(top_k, Len(sorted)))

-----------------------------------------------------------------------------
(* evaluate_recommender.py; a float quotient a / b is the fraction [num, den] *)

Fraction(a, b) == [num |-> a, den |-> b]

\* Mutant of calculate_recall_at_k: no early return for an empty relevant
\* list; the quotient found / 0 (a ZeroDivisionError) is the fraction over 0.
CalculateRecallAtK_NoGuard(relevant, retrieved, k) ==
    LET retrieved_names == [i \in 1..Min(k, Len(retrieved)) |-> retrieved[i].name]
        found == Cardinality({i \in 1..Len(relevant) :
                                 relevant[i] \in Range(retrieved_names)})
    IN Fraction(found, Len(relevant))

\* Mutant of calculate_recall_at_k: the names of all retrieved records.
CalculateRecallAtK_NoCut(relevant, retrieved, k) ==
    IF relevant = <<>> THEN Fraction(0, 1)
    ELSE LET retrieved_names == [i \in 1..Len(retrieved) |-> retrieved[i].name]
             found == Cardinality({i \in 1..Len(relevant) :
                                      relevant[i] \in Range(retrieved_names)})
         IN Fraction(found, Len(relevant))

\* calculate_recall_at_k: relevant is the list of names of the test query.
CalculateRecallAtK(relevant, retrieved, k) ==
    IF relevant = <<>> THEN Fraction(0, 1)
    ELSE LET retrieved_names == [i \in 1..Min(k, Len(retrieved)) |-> retrieved[i].name]
             found == Cardinality({i \in 1..Len(relevant) :
                                      relevant[i] \in Range(retrieved_names)})
         IN Fraction(found, Len(relevant))

\* The loop of calculate_map_at_k after the first n retrieved names: num_hits
\* and precision_sum, the latter in units of 1 / Fact(Len(retrieved_names)),
\* of which every position i is a divisor.
RECURSIVE MapLoop(_, _, _)
MapLoop(relevant, retrieved_names, n) ==
    IF n = 0 THEN [num_hits |-> 0, precision_sum |-> 0]
    ELSE LET before == MapLoop(relevant, retrieved_names, n - 1)
         IN IF retrieved_names[n] \in Range(relevant)
            THEN [num_hits |-> before.num_hits + 1,
                  precision_sum |-> before.precision_sum
                      + (before.num_hits + 1) * (Fact(Len(retrieved_names)) \div n)]
            ELSE before

\* Mutant of calculate_map_at_k: the loop ends after the first retrieved name.
CalculateMapAtK_FirstOnly(relevant, retrieved, k) ==
    IF relevant = <<>> \/ retrieved = <<>> THEN Fraction(0, 1)
    ELSE IF retrieved[1].name \in Range(relevant)
    THEN Fraction(1, Min(Len(relevant), k))
    ELSE Fraction(0, 1)

\* Mutant of calculate_map_at_k: precision_at_i = 1 / (i + 1).
CalculateMapAtK_UnitHits(relevant, retrieved, k) ==
    IF relevant = <<>> THEN Fraction(0, 1)
    ELSE LET retrieved_names == [i \in 1..Min(k, Len(retrieved)) |-> retrieved[i].name]
             n == Len(retrieved_names)
             hits == {i \in 1..n : retrieved_names[i] \in Range(relevant)}
             precision_sum == SumTo([i \in 1..n |-> IF i \in hits THEN Fact(n) \div i ELSE 0], n)
         IN IF hits = {} THEN Fraction(0, 1)
            ELSE Fraction(precision_sum, Fact(n) * Min(Len(relevant), k))

\* calculate_map_at_k
CalculateMapAtK(relevant, retrieved, k) ==
    IF relevant = <<>> THEN Fraction(0, 1)
    ELSE LET retrieved_names == [i \in 1..Min(k, Len(retrieved)) |-> retrieved[i].name]
             loop == MapLoop(relevant, retrieved_names, Len(retrieved_names))
         IN IF loop.num_hits = 0 THEN Fraction(0, 1)
            ELSE Fraction(loop.precision_sum,
                          Fact(Len(retrieved_names)) * Min(Len(relevant), k))

\* Sum of a list of floats, as a fraction.
RECURSIVE FractionSum(_)
FractionSum(scores) ==
    IF scores = <<>> THEN Fraction(0, 1)
    ELSE LET rest == FractionSum(Tail(scores))
             x == Head(scores)
         IN Fraction(x.num * rest.den + rest.num * x.den, x.den * rest.den)

\* Mutant of the mean: the total of the scores.
Mean_Total(scores) ==
    IF scores # <<>> THEN FractionSum(scores) ELSE Fraction(0, 1)

\* np.mean(scores) if scores else 0.0
Mean(scores) ==
    IF scores # <<>>
    THEN Fraction(FractionSum(scores).num, FractionSum(scores).den * Len(scores))
    ELSE Fraction(0, 1)

\* evaluate_recommender, the body of the loop for one query_data; a
\* description of kind "none" stands for a query_data without that key.
QueryResult(points, query_data, k, use_enhanced, rewriteOK, embedOK) ==
    LET query == query_data.query
        relevant_assessments == query_data.relevant_assessments
        recommendations ==
            IF use_enhanced
            THEN EnhancedRecommendations(points, query, NoneVal, NoneVal, NoneVal, k,
                                         rewriteOK, embedOK).value
            ELSE ProcessQuery(points, query, NoneVal, NoneVal, NoneVal, k, embedOK).value
    IN [query |-> query,
        description |-> IF query_data.description = NoneVal THEN Str("")
                        ELSE query_data.description,
        relevant_assessments |-> relevant_assessments,
        recommendations |->
            [i \in 1..Min(k, Len(recommendations)) |-> recommendations[i].name],
        recall_at_k |-> CalculateRecallAtK(relevant_assessments, recommendations, k),
        map_at_k |-> CalculateMapAtK(relevant_assessments, recommendations, k)]

\* A query_data of the caller as the loop body leaves it: the body reads it
\* with query_data[...] and query_data.get(...) and assigns nothing to it.
QueryDataAfter(query_data) == query_data

\* Mutant of evaluate_recommender: a query_result is put in front of the
\* entries retained so far.
EvaluateRecommender_LastFirst(points, test_queries, k, use_enhanced, rewriteOK, embedOK) ==
    LET n == Len(test_queries)
        queries == [i \in 1..n |->
                       QueryResult(points, test_queries[n + 1 - i], k, use_enhanced, rewriteOK, embedOK)]
        recall_scores == [i \in 1..Len(queries) |-> queries[i].recall_at_k]
        map_scores == [i \in 1..Len(queries) |-> queries[i].map_at_k]
    IN [queries |-> queries,
        mean_recall_at_k |-> Mean(recall_scores),
        mean_map_at_k |-> Mean(map_scores)]

\* evaluate_recommender
EvaluateRecommender(points, test_queries, k, use_enhanced, rewriteOK, embedOK) ==
    LET queries == [i \in 1..Len(test_queries) |->
                       QueryResult(points, test_queries[i], k, use_enhanced, rewriteOK, embedOK)]
        recall_scores == [i \in 1..Len(queries) |-> queries[i].recall_at_k]
        map_scores == [i \in 1..Len(queries) |-> queries[i].map_at_k]
    IN [queries |-> queries,
        mean_recall_at_k |-> Mean(recall_scores),
        mean_map_at_k |-> Mean(map_scores)]

-----------------------------------------------------------------------------
(* Inputs *)

LongQuery == [i \in 1..(MaxTokens + 1) |-> IF i <= MaxTokens THEN "sales" ELSE "java"]

Queries == {<<"java">>, LongQuery}

\* Vectors handed to add_vectors: an embedding and a vector of another length.
BadVector == [i \in 1..(VectorSize + 1) |-> 1]

VectorInputs == {UnitVector(1), BadVector}

QueryVectors == {UnitVector(1), UnitVector(2), ZeroVector}

PayloadInputs == {RowPayload(r) : r \in Rows}

\* Filter dicts: each key absent or present with one of its values.
FilterItems(key, values) == {<<>>} \cup {<<[key |-> key, value |-> v]>> : v \in values}

FilterDicts ==
    {a \o c :
        a \in FilterItems("remote_testing", {Str("Yes")}),
        c \in FilterItems("test_type", {List(<<>>), List(<<"P">>), List(<<"K", "S">>), Str("K")})}
    \cup {a \o b \o c :
        a \in FilterItems("remote_testing", {Str("Yes")}),
        b \in {<<[key |-> "adaptive_irt", value |-> Str("No")]>>},
        c \in {<<>>, <<[key |-> "test_type", value |-> List(<<"K", "S">>)]>>}}

-----------------------------------------------------------------------------
(* The state machine *)

\* The threads that serve recommend requests side by side.
Threads == {1, 2}

\* A thread that serves no request.
NoRequest == [at |-> "none"]

Init ==
    /\ config = CreatedCollection(VectorSize)
    /\ ties \in TieOrders
    /\ collection = {}
    /\ built = NoFile
    /\ pc = "idle"
    /\ call = [op |-> "none"]
    /\ ret = [kind |-> "none"]
    /\ log = <<>>
    /\ requests = [t \in Threads |-> NoRequest]

\* QdrantVectorStore.add_vectors(vectors, payloads)
AddVectors ==
    /\ pc = "idle"
    /\ \E vectors \in SeqsUpTo(VectorInputs, MaxBatch),
          payloads \in {l \in SeqsUpTo(PayloadInputs, MaxBatch) : l # <<>> /\ UniqueNames(l)} :
        \E out \in {AddVectorsOutcome(collection, vectors, payloads)} :
           /\ collection' = out.points
           /\ built' = IF out.kind = "returned" THEN NoFile ELSE built
           /\ call' = [op |-> "add_vectors", vectors |-> vectors, payloads |-> payloads,
                       before |-> collection]
           /\ ret' = [kind |-> out.kind, value |-> out.value]
           /\ log' = <<>>
           /\ pc' = "done"
           /\ UNCHANGED <<config, ties, requests>>

\* build_embeddings(data_file, collection_name); bad are the rows whose text
\* the embedding provider rejects. The store is constructed with the default
\* vector size; the engine refuses vectors of another size than the
\* collection's.
BuildEmbeddings ==
    /\ pc = "idle"
    /\ \E df \in SourceFiles :
       \E bad \in SUBSET (1..Len(df)) :
        \E store \in {ConstructOutcome(config, collection, VectorSize, TRUE)} :
        \E out \in {IF store.config.size = VectorSize
                    THEN BuildOutcome(store.points, df, FailedBatches(bad, BatchSize))
                    ELSE [kind |-> "raised", value |-> "UnexpectedResponse",
                          points |-> store.points]} :
           /\ config' = store.config
           /\ UNCHANGED <<ties, requests>>
           /\ collection' = out.points
           /\ built' = IF out.kind = "returned" THEN [valid |-> TRUE, file |-> df] ELSE built
           /\ call' = [op |-> "build", file |-> df, bad |-> bad,
                       failed |-> FailedBatches(bad, BatchSize),
                       again |-> (built.valid /\ built.file = df), before |-> collection]
           /\ ret' = [kind |-> out.kind, value |-> out.value]
           /\ log' = <<>>
           /\ pc' = "done"

\* QdrantVectorStore.search(query_vector, limit, filters)
SearchCall ==
    /\ pc = "idle"
    /\ \E q \in QueryVectors, limit \in 1..MaxLimit, filters \in FilterDicts :
        /\ call' = [op |-> "search", query_vector |-> q, limit |-> limit, filters |-> filters]
        /\ ret' = [kind |-> "returned", value |-> Search(collection, q, limit, filters)]
        /\ log' = <<>>
        /\ pc' = "done"
        /\ UNCHANGED <<config, ties, collection, built, requests>>

\* SHLRecommender.recommend(query, top_k, enhanced, filters); the rewriting
\* call is made, and may fail, in enhanced mode only.
Recommend ==
    /\ pc = "idle"
    /\ \E query \in Queries, top_k \in {1, MaxBatch}, enhanced \in BOOLEAN,
          filters \in FilterDicts, rewriteOK \in BOOLEAN, embedOK \in BOOLEAN :
        /\ enhanced \/ rewriteOK
        /\ \E out \in {RecommendOutcome(collection, query, top_k, enhanced, filters,
                                         rewriteOK, embedOK)} :
           /\ call' = [op |-> "recommend", query |-> query, top_k |-> top_k,
                       enhanced |-> enhanced, filters |-> filters,
                       rewriteOK |-> rewriteOK, embedOK |-> embedOK]
           /\ ret' = [kind |-> out.kind, value |-> out.value]
           /\ log' = out.log
           /\ pc' = "done"
           /\ UNCHANGED <<config, ties, collection, built, requests>>

\* SHLRecommender.recommend_from_url(url, top_k, enhanced, filters)
RecommendFromUrl ==
    /\ pc = "idle"
    /\ \E top_k \in 1..MaxLimit, enhanced \in BOOLEAN,
          filters \in {<<>>, <<[key |-> "remote_testing", value |-> Str("Yes")]>>},
          fetchOK \in BOOLEAN, rewriteOK \in BOOLEAN, embedOK \in BOOLEAN :
        /\ enhanced \/ rewriteOK
        /\ \E out \in {RecommendFromUrlOutcome(collection, "url", top_k, enhanced, filters,
                                                fetchOK, rewriteOK, embedOK)} :
           /\ call' = [op |-> "recommend_from_url", url |-> "url", top_k |-> top_k,
                       enhanced |-> enhanced, filters |-> filters, fetchOK |-> fetchOK,
                       rewriteOK |-> rewriteOK, embedOK |-> embedOK]
           /\ ret' = [kind |-> out.kind, value |-> out.value]
           /\ log' = out.log
           /\ pc' = "done"
           /\ UNCHANGED <<config, ties, collection, built, requests>>

\* The caller takes the outcome; the next call may start.
Deliver ==
    /\ pc = "done"
    /\ pc' = "idle"
    /\ call' = [op |-> "none"]
    /\ ret' = [kind |-> "none"]
    /\ log' = <<>>
    /\ UNCHANGED <<config, ties, collection, built, requests>>

\* The application: the catalog is written by builds only.
Next ==
    \/ BuildEmbeddings
    \/ SearchCall
    \/ Recommend
    \/ RecommendFromUrl
    \/ Deliver

Spec == Init /\ [][Next]_vars

\* recommend(query, top_k, enhanced, filters) of the standalone app
StandaloneRecommendCall ==
    /\ pc = "idle"
    /\ \E query \in Queries, top_k \in 1..MaxLimit,
          filters \in {<<>>, <<[key |-> "remote_testing", value |-> Str("Yes")]>>,
                       <<[key |-> "test_type", value |-> List(<<"K", "S">>)]>>} :
        /\ call' = [op |-> "standalone_recommend", query |-> query, top_k |-> top_k,
                    filters |-> filters]
        /\ ret' = [kind |-> "returned", value |-> StandaloneRecommend(query, top_k, filters)]
        /\ log' = <<>>
        /\ pc' = "done"
        /\ UNCHANGED <<config, ties, collection, built, requests>>

\* The vector store on its own, add_vectors called with any lists, and the
\* standalone recommender beside it.
StoreNext ==
    \/ AddVectors
    \/ BuildEmbeddings
    \/ SearchCall
    \/ StandaloneRecommendCall
    \/ Deliver

StoreSpec == Init /\ [][StoreNext]_vars

\* QdrantVectorStore(collection_name, vector_size)
Construct ==
    /\ pc = "idle"
    /\ \E vector_size \in {VectorSize, VectorSize + 1}, getOK \in BOOLEAN :
        \E out \in {ConstructOutcome(config, collection, vector_size, getOK)} :
           /\ config' = out.config
           /\ collection' = out.points
           /\ built' = IF out.points = collection THEN built ELSE NoFile
           /\ call' = [op |-> "construct", vector_size |-> vector_size, getOK |-> getOK,
                       config |-> config, before |-> collection]
           /\ ret' = [kind |-> out.kind, value |-> "None"]
           /\ log' = <<>>
           /\ pc' = "done"
           /\ UNCHANGED <<ties, requests>>

\* Provisioning: no collection of the configured name exists at the start.
ProvisionInit ==
    /\ config = NoCollection
    /\ ties \in TieOrders
    /\ collection = {}
    /\ built = NoFile
    /\ pc = "idle"
    /\ call = [op |-> "none"]
    /\ ret = [kind |-> "none"]
    /\ log = <<>>
    /\ requests = [t \in Threads |-> NoRequest]

ProvisionNext ==
    \/ Construct
    \/ BuildEmbeddings
    \/ Deliver

ProvisionSpec == ProvisionInit /\ [][ProvisionNext]_vars


-----------------------------------------------------------------------------
(* Filter dicts with keys outside the record schema, None values, empty lists *)

Item(key, value) == <<[key |-> key, value |-> value]>>

\* Filters of a recommend request.
RequestFilters ==
    { Item("category", Str("x")),
      Item("remote_testing", Str("Yes")) \o Item("category", Str("x")),
      Item("name", Str("B")) \o Item("test_type", List(<<"K", "S">>)),
      Item("remote_testing", NoneVal),
      Item("remote_testing", NoneVal) \o Item("adaptive_irt", Str("No")),
      Item("test_type", NoneVal) \o Item("remote_testing", Str("Yes")),
      Item("test_type", List(<<>>)),
      Item("adaptive_irt", Str("No")) \o Item("test_type", List(<<>>)),
      Item("remote_testing", Str("Yes")) }

\* Filters handed to the vector store.
StoreFilters ==
    { <<>>,
      Item("name", Str("B")),
      Item("remote_testing", Str("Yes")) \o Item("name", Str("A")),
      Item("category", Str("x")),
      Item("name", Str("B")) \o Item("test_type", List(<<"K", "S">>)),
      Item("test_type", List(<<>>)),
      Item("test_type", List(<<"P", "S">>)),
      Item("test_type", Str("K")),
      Item("remote_testing", Str("Yes")) \o Item("adaptive_irt", Str("No")) }

\* QdrantVectorStore.search(query_vector, limit, filters), with the filter
\* it hands to the engine.
SearchKeys ==
    /\ pc = "idle"
    /\ \E q \in QueryVectors, limit \in 1..MaxLimit, filters \in StoreFilters :
        /\ call' = [op |-> "search", query_vector |-> q, limit |-> limit, filters |-> filters]
        /\ ret' = [kind |-> "returned", value |-> Search(collection, q, limit, filters)]
        /\ log' = <<[api |-> "search", input |-> q, ok |-> TRUE,
                     query_filter |-> IF Len(filters) > 0 THEN BuildFilter(filters) ELSE <<>>]>>
        /\ pc' = "done"
        /\ UNCHANGED <<config, ties, collection, built, requests>>

\* SHLRecommender.recommend(query, top_k, enhanced, filters), the providers
\* answering.
RecommendKeys ==
    /\ pc = "idle"
    /\ \E query \in Queries, top_k \in {1, MaxLimit}, enhanced \in BOOLEAN,
          filters \in RequestFilters :
        \E out \in {RecommendOutcome(collection, query, top_k, enhanced, filters, TRUE, TRUE)} :
           /\ call' = [op |-> "recommend", query |-> query, top_k |-> top_k,
                       enhanced |-> enhanced, filters |-> filters,
                       rewriteOK |-> TRUE, embedOK |-> TRUE]
           /\ ret' = [kind |-> out.kind, value |-> out.value]
           /\ log' = out.log
           /\ pc' = "done"
           /\ UNCHANGED <<config, ties, collection, built, requests>>

FilterNext ==
    \/ BuildEmbeddings
    \/ SearchKeys
    \/ RecommendKeys
    \/ Deliver

FilterSpec == Init /\ [][FilterNext]_vars

-----------------------------------------------------------------------------
(* The evaluation metrics as calls *)

EvalNames == {"A", "B", "X"}

\* The retrieved lists of the two worked examples of the metrics.
ExampleRetrieved ==
    { <<[name |-> "A"], [name |-> "X"], [name |-> "B"], [name |-> "Y"]>>,
      <<[name |-> "X"], [name |-> "Y"], [name |-> "Z"]>> }

RelevantLists == SeqsUpTo(EvalNames, MaxRelevant) \cup {<<"A", "B", "C">>}

RetrievedLists ==
    SeqsUpTo({[name |-> n] : n \in EvalNames}, MaxRetrieved) \cup ExampleRetrieved

\* calculate_recall_at_k(relevant, retrieved, k)
RecallAtK ==
    /\ pc = "idle"
    /\ \E relevant \in RelevantLists, retrieved \in RetrievedLists, k \in 1..(MaxRetrieved + 1) :
        /\ call' = [op |-> "recall_at_k", relevant |-> relevant, retrieved |-> retrieved, k |-> k]
        /\ ret' = [kind |-> "returned", value |-> CalculateRecallAtK(relevant, retrieved, k)]
        /\ log' = <<>>
        /\ pc' = "done"
        /\ UNCHANGED <<config, ties, collection, built, requests>>

\* calculate_map_at_k(relevant, retrieved, k)
MapAtK ==
    /\ pc = "idle"
    /\ \E relevant \in RelevantLists, retrieved \in RetrievedLists, k \in 1..(MaxRetrieved + 1) :
        /\ call' = [op |-> "map_at_k", relevant |-> relevant, retrieved |-> retrieved, k |-> k]
        /\ ret' = [kind |-> "returned", value |-> CalculateMapAtK(relevant, retrieved, k)]
        /\ log' = <<>>
        /\ pc' = "done"
        /\ UNCHANGED <<config, ties, collection, built, requests>>

\* The test queries of an evaluation run.
QueryData ==
    { [query |-> <<"java">>, description |-> NoneVal, relevant_assessments |-> <<"B">>],
      [query |-> <<"java">>, description |-> Str("developers"),
       relevant_assessments |-> <<"A", "C">>],
      [query |-> LongQuery, description |-> NoneVal, relevant_assessments |-> <<>>] }

\* The files of test queries: lists of distinct queries.
QueryFiles == {l \in SeqsUpTo(QueryData, MaxQueries) : NoRepeats(l)}

\* evaluate_recommender(recommender, test_queries, k, use_enhanced); the
\* providers answer, or fail, for the whole run.
Evaluate ==
    /\ pc = "idle"
    /\ \E test_queries \in QueryFiles, k \in {1, MaxBatch},
          use_enhanced \in BOOLEAN, providerOK \in BOOLEAN :
        /\ call' = [op |-> "evaluate", test_queries |-> test_queries, k |-> k,
                    use_enhanced |-> use_enhanced, providerOK |-> providerOK,
                    after |-> [i \in 1..Len(test_queries) |-> QueryDataAfter(test_queries[i])]]
        /\ ret' = [kind |-> "returned",
                   value |-> EvaluateRecommender(collection, test_queries, k, use_enhanced,
                                                 providerOK, providerOK)]
        /\ log' = <<>>
        /\ pc' = "done"
        /\ UNCHANGED <<config, ties, collection, built, requests>>

EvalNext ==
    \/ RecallAtK
    \/ MapAtK
    \/ Deliver

EvalSpec == Init /\ [][EvalNext]_vars

\* An evaluation run over the catalogs builds leave.
EvaluateNext ==
    \/ BuildEmbeddings
    \/ Evaluate
    \/ Deliver

EvaluateSpec == Init /\ [][EvaluateNext]_vars

-----------------------------------------------------------------------------
(* Properties of the vector store and the recommendation engine *)

Ended(op) == pc = "done" /\ call.op = op

LabelsOf(rec) == Range(rec.test_type.val)

\* A record meets an item of a filter dict: the scalar field equals the
\* requested value; the test_type labels share one with the requested ones.
MeetsItem(rec, item) ==
    IF item.key = "test_type"
    THEN LabelsOf(rec) \cap Range(item.value.val) # {}
    ELSE rec[item.key] = item.value.val[1]

\* The same, an empty test_type list asking for nothing.
MeetsItemOrEmpty(rec, item) ==
    \/ item.key = "test_type" /\ item.value = List(<<>>)
    \/ MeetsItem(rec, item)

Admitted(points, filters) ==
    {p \in points : \A i \in 1..Len(filters) : MeetsItemOrEmpty(p.payload, filters[i])}

PayloadOf(rec) ==
    [name |-> rec.name, remote_testing |-> rec.remote_testing,
     adaptive_irt |-> rec.adaptive_irt, test_type |-> rec.test_type]

\* C1: search on a non-empty collection returns at most limit results, and
\* their relevance_score never increases from one result to the next.
C1_SearchBoundedAndSorted ==
    (Ended("search") /\ collection # {}) =>
        /\ Len(ret.value) <= call.limit
        /\ \A i \in 1..Len(ret.value), j \in 1..Len(ret.value) :
              i < j => ret.value[i].relevance_score >= ret.value[j].relevance_score

\* A search that had to cut: more points than the limit, and a stored point
\* scoring below the last result.
C1_Witness ==
    /\ Ended("search")
    /\ Cardinality(collection) > call.limit
    /\ Len(ret.value) = call.limit
    /\ \E p \in collection :
          CosineScore(call.query_vector, p.vector) < ret.value[Len(ret.value)].relevance_score

\* C2 (as claimed): every record search returns meets every item of the
\* filters it was given: scalar equality, and a shared label for test_type.
C2_Original ==
    Ended("search") =>
        \A i \in 1..Len(ret.value), k \in 1..Len(call.filters) :
            MeetsItem(ret.value[i], call.filters[k])

\* C2 (amended): every record search returns meets every item of the filters,
\* where an empty test_type list imposes no constraint; this holds for
\* test_type stored as a scalar as well as stored as a list.
C2_ReturnedMeetFilters ==
    Ended("search") =>
        \A i \in 1..Len(ret.value), k \in 1..Len(call.filters) :
            MeetsItemOrEmpty(ret.value[i], call.filters[k])

\* A filtered search that returned a record with a scalar test_type and left
\* a stored record out.
C2_Witness ==
    /\ Ended("search")
    /\ \E k \in 1..Len(call.filters) :
          call.filters[k].key = "test_type" /\ Len(call.filters[k].value.val) > 0
    /\ \E k \in 1..Len(call.filters) : call.filters[k].key # "test_type"
    /\ \E i \in 1..Len(ret.value) : ret.value[i].test_type.kind = "str"
    /\ Len(ret.value) < call.limit
    /\ Len(ret.value) < Cardinality(collection)

\* C3: an enhanced recommend whose rewriting call failed returns the list the
\* direct recommend returns for the same query, top_k and filters, embeds the
\* unmodified query, and raises nothing.
C3_EnhancedFallbackEqualsDirect ==
    (Ended("recommend") /\ call.enhanced /\ ~call.rewriteOK) =>
        /\ ret.kind = "returned"
        /\ ret.value = RecommendOutcome(collection, call.query, call.top_k, FALSE,
                                        call.filters, TRUE, call.embedOK).value
        /\ \A i \in 1..Len(log) : log[i].api = "embed" => log[i].input = call.query

\* A fallback whose result a successful rewriting would have changed.
C3_Witness ==
    /\ Ended("recommend") /\ call.enhanced /\ ~call.rewriteOK /\ call.embedOK
    /\ Len(ret.value) > 0
    /\ ret.value # RecommendOutcome(collection, call.query, call.top_k, TRUE,
                                    call.filters, TRUE, call.embedOK).value

C5_FetchFailureRaises ==
    (Ended("recommend_from_url") /\ ~call.fetchOK) =>
        /\ ret.kind = "raised"
        /\ \A i \in 1..Len(log) : log[i].api = "fetch"

\* A failed fetch over a collection that holds points.
C5_Witness ==
    /\ Ended("recommend_from_url") /\ ~call.fetchOK
    /\ collection # {}
    /\ ret.kind = "raised"

\* C6: add_vectors raises and writes nothing when the lists differ in length
\* or a vector is not of the configured size.
C6_MismatchRejected ==
    (Ended("add_vectors") /\
        (\/ Len(call.vectors) # Len(call.payloads)
         \/ \E i \in 1..Len(call.vectors) : Len(call.vectors[i]) # VectorSize)) =>
        /\ ret.kind = "raised"
        /\ collection = call.before

PayloadView(points) == {<<p.id, p.payload>> : p \in points}

\* C7: a build of the source file the collection was last built from leaves
\* the record count and the payload of every point as they were.
C7_RebuildIdempotent ==
    (Ended("build") /\ call.again /\ ret.kind = "returned") =>
        /\ Cardinality(collection) = Cardinality(call.before)
        /\ PayloadView(collection) = PayloadView(call.before)

\* A second build of a non-empty file that changed a stored vector.
C7_Witness ==
    /\ Ended("build") /\ call.again /\ ret.kind = "returned"
    /\ Len(call.file) = MaxBatch
    /\ collection # call.before

\* C8 (as claimed): add_vectors gives the i-th pair the id i, and the
\* collection holds at most one record per name.
C8_Original ==
    /\ (Ended("add_vectors") /\ ret.kind = "returned") =>
          \A i \in 1..Min(Len(call.vectors), Len(call.payloads)) :
              [id |-> i - 1, vector |-> call.vectors[i], payload |-> call.payloads[i]]
                  \in collection
    /\ \A p \in collection, r \in collection :
          p.payload.name = r.payload.name => p = r

\* C8 (amended): add_vectors gives the i-th pair the id i and replaces the
\* stored point of that id; the collection holds at most one record per point
\* id, and points of other ids are kept. Records of one name may repeat.
C8_OnePointPerId ==
    /\ (Ended("add_vectors") /\ ret.kind = "returned") =>
          /\ \A i \in 1..Min(Len(call.vectors), Len(call.payloads)) :
                [id |-> i - 1, vector |-> call.vectors[i], payload |-> call.payloads[i]]
                    \in collection
          /\ \A p \in call.before :
                p.id >= Min(Len(call.vectors), Len(call.payloads)) => p \in collection
    /\ \A p \in collection, r \in collection : p.id = r.id => p = r

\* An add_vectors that replaced a stored point and left two records of one
\* name behind.
C8_Witness ==
    /\ Ended("add_vectors") /\ ret.kind = "returned"
    /\ \E p \in call.before : p \notin collection
    /\ \E p \in collection, r \in collection : p.payload.name = r.payload.name /\ p # r

C9_WitnessEmpty ==
    /\ Ended("recommend")
    /\ collection # {}
    /\ Admitted(collection, call.filters) = {}
    /\ ret.value = <<>>

-----------------------------------------------------------------------------
(* Properties of the evaluation metrics *)

NoDuplicates(l) == \A i \in 1..Len(l), j \in 1..Len(l) : l[i] = l[j] => i = j

NamesOfTop(retrieved, k) == {retrieved[i].name : i \in 1..Min(k, Len(retrieved))}

\* C10: for a non-empty set of relevant names, any retrieved sequence and
\* any k >= 1, calculate_recall_at_k is
\* |relevant \cap names(retrieved[:k])| / |relevant|, a value in [0, 1].
C10_RecallFormula ==
    (Ended("recall_at_k") /\ call.relevant # <<>> /\ NoDuplicates(call.relevant)) =>
        LET relevant == Range(call.relevant)
            hits == relevant \cap NamesOfTop(call.retrieved, call.k)
        IN /\ ret.value.den > 0
           /\ ret.value.num * Cardinality(relevant) = Cardinality(hits) * ret.value.den
           /\ 0 <= ret.value.num /\ ret.value.num <= ret.value.den

\* A recall strictly between 0 and 1 with a relevant name retrieved beyond
\* position k and a name retrieved twice within it.
C10_Witness ==
    /\ Ended("recall_at_k") /\ NoDuplicates(call.relevant)
    /\ 0 < ret.value.num /\ ret.value.num < ret.value.den
    /\ call.k < Len(call.retrieved)
    /\ \E i \in 1..Len(call.retrieved) :
          i > call.k /\ call.retrieved[i].name \in Range(call.relevant)
             /\ call.retrieved[i].name \notin NamesOfTop(call.retrieved, call.k)
    /\ \E i \in 1..call.k, j \in 1..call.k :
          i # j /\ call.retrieved[i].name = call.retrieved[j].name

\* The hits among the first n retrieved names.
HitsUpTo(relevant, retrieved_names, n) ==
    Cardinality({j \in 1..n : retrieved_names[j] \in Range(relevant)})

\* The sum, over the positions i of retrieved[:k] whose name is relevant, of
\* (hits up to i) / i, as a fraction.
PrecisionTerms(relevant, retrieved, k) ==
    LET n == Min(k, Len(retrieved))
        names == [i \in 1..n |-> retrieved[i].name]
    IN Fraction(SumTo([i \in 1..n |->
                          IF names[i] \in Range(relevant)
                          THEN HitsUpTo(relevant, names, i) * (Fact(n) \div i)
                          ELSE 0], n),
                Fact(n))

\* C11: for a non-empty set of relevant names, any retrieved sequence (names
\* may repeat) and any k >= 1, calculate_map_at_k is the sum of
\* (hits so far) / i over the relevant positions of retrieved[:k], divided by
\* min(|relevant|, k), and lies in [0, 1].
C11_MapFormulaWithinUnit ==
    (Ended("map_at_k") /\ call.relevant # <<>> /\ NoDuplicates(call.relevant)) =>
        LET terms == PrecisionTerms(call.relevant, call.retrieved, call.k)
            m == Min(Len(call.relevant), call.k)
        IN /\ ret.value.den > 0
           /\ ret.value.num * terms.den * m = terms.num * ret.value.den
           /\ 0 <= ret.value.num /\ ret.value.num <= ret.value.den

\* A MAP above 1 (a relevant name retrieved twice within the first k).
C11_AboveOne ==
    /\ Ended("map_at_k") /\ NoDuplicates(call.relevant)
    /\ ret.value.num > ret.value.den

NoneInTop(relevant, retrieved, k) == Range(relevant) \cap NamesOfTop(retrieved, k) = {}

\* C12: calculate_recall_at_k and calculate_map_at_k return 0.0 and raise
\* nothing when relevant is empty, and when relevant is not empty but none of
\* its names is among the names of retrieved[:k].
C12_ZeroWithoutHits ==
    ((Ended("recall_at_k") \/ Ended("map_at_k"))
        /\ NoneInTop(call.relevant, call.retrieved, call.k)) =>
        /\ ret.kind = "returned"
        /\ ret.value.num = 0
        /\ ret.value.den > 0

\* The worked example: relevant {A, B, C}, retrieved [X, Y, Z], k = 3.
C12_Witness ==
    /\ Ended("map_at_k")
    /\ call.relevant = <<"A", "B", "C">>
    /\ [i \in 1..Len(call.retrieved) |-> call.retrieved[i].name] = <<"X", "Y", "Z">>
    /\ call.k = 3
    /\ ret.value.num = 0

\* An empty relevant list against a non-empty retrieved list, and a relevant
\* name retrieved only beyond position k.
C12_WitnessEmpty ==
    /\ Ended("recall_at_k")
    /\ call.relevant = <<>> /\ call.retrieved # <<>>
    /\ ret.value.num = 0

C12_WitnessBeyondK ==
    /\ Ended("map_at_k")
    /\ call.relevant # <<>>
    /\ NoneInTop(call.relevant, call.retrieved, call.k)
    /\ ~NoneInTop(call.relevant, call.retrieved, Len(call.retrieved))

IsExample(relevant, names, k) ==
    /\ call.relevant = relevant
    /\ [i \in 1..Len(call.retrieved) |-> call.retrieved[i].name] = names
    /\ call.k = k

\* C13: with relevant {A, B}, retrieved [A, X, B, Y] and k = 4 the recall is
\* 1 and the MAP is 5/6; in general the MAP times min(|relevant|, k) is the sum
\* of h / i over the hits, h being the rank of the hit among the hits and i its
\* 1-indexed position.
C13_HitContributesRankOverPosition ==
    /\ (Ended("recall_at_k") /\ IsExample(<<"A", "B">>, <<"A", "X", "B", "Y">>, 4)) =>
          ret.value.num = ret.value.den /\ ret.value.den > 0
    /\ (Ended("map_at_k") /\ IsExample(<<"A", "B">>, <<"A", "X", "B", "Y">>, 4)) =>
          ret.value.num * 6 = 5 * ret.value.den /\ ret.value.den > 0
    /\ (Ended("map_at_k") /\ call.relevant # <<>>) =>
          LET terms == PrecisionTerms(call.relevant, call.retrieved, call.k)
              m == Min(Len(call.relevant), call.k)
          IN /\ ret.value.den > 0
             /\ ret.value.num * terms.den * m = terms.num * ret.value.den

\* The worked example, its MAP computed.
C13_Witness ==
    /\ Ended("map_at_k")
    /\ IsExample(<<"A", "B">>, <<"A", "X", "B", "Y">>, 4)
    /\ ret.value.num > 0

-----------------------------------------------------------------------------
(* Properties of an evaluation run *)

\* The product of the denominators of a list of fractions.
RECURSIVE DenProduct(_)
DenProduct(scores) == IF scores = <<>> THEN 1 ELSE Head(scores).den * DenProduct(Tail(scores))

\* The scores of a list times the product of their denominators, summed.
ScaledTotal(scores) ==
    SumTo([i \in 1..Len(scores) |-> scores[i].num * (DenProduct(scores) \div scores[i].den)],
          Len(scores))

\* mean is the arithmetic mean of scores; 0.0 when there is none.
IsMeanOf(mean, scores) ==
    IF scores = <<>> THEN mean.num = 0 /\ mean.den > 0
    ELSE /\ mean.den > 0
         /\ mean.num * DenProduct(scores) * Len(scores) = ScaledTotal(scores) * mean.den

\* C14: evaluate_recommender reports as mean_recall_at_k and mean_map_at_k
\* the arithmetic means of the recall_at_k and map_at_k values of its
\* per-query entries, which are one per test query; for an empty list of test
\* queries both means are 0.0 and nothing is raised.
C14_MeansOverQueries ==
    Ended("evaluate") =>
        LET entries == ret.value.queries
        IN /\ ret.kind = "returned"
           /\ Len(entries) = Len(call.test_queries)
           /\ \A i \in 1..Len(entries) : entries[i].recall_at_k.den > 0 /\ entries[i].map_at_k.den > 0
           /\ IsMeanOf(ret.value.mean_recall_at_k, [i \in 1..Len(entries) |-> entries[i].recall_at_k])
           /\ IsMeanOf(ret.value.mean_map_at_k, [i \in 1..Len(entries) |-> entries[i].map_at_k])

\* A run of two queries with different recalls, a mean strictly between them.
C14_Witness ==
    /\ Ended("evaluate")
    /\ Len(call.test_queries) = 2
    /\ LET a == ret.value.queries[1].recall_at_k
           b == ret.value.queries[2].recall_at_k
           mean == ret.value.mean_recall_at_k
       IN /\ a.num * b.den < b.num * a.den
          /\ a.num * mean.den < mean.num * a.den
          /\ mean.num * b.den < b.num * mean.den
    /\ ret.value.mean_map_at_k.num > 0

\* A run without test queries.
C14_WitnessEmpty ==
    /\ Ended("evaluate")
    /\ call.test_queries = <<>>
    /\ collection # {}
    /\ ret.value.mean_recall_at_k = Fraction(0, 1)

-----------------------------------------------------------------------------
(* Properties of provisioning, ranking and filter translation *)

\* The vector stored for the row at (1-based) position i of a built file.
StoredVectors(points, i) == {p.vector : p \in {r \in points : r.id = i - 1}}

\* C15: a build during which the provider rejects the text of some rows
\* completes; the rows whose embedding failed are stored with the all-zero
\* vector of the configured size, every other row with its real embedding.
C15_FailureAbsorbedPerItem ==
    (Ended("build") /\ call.bad # {}) =>
        /\ ret.kind = "returned"
        /\ \A i \in 1..Len(call.file) :
              StoredVectors(collection, i) =
                  {IF i \in call.bad THEN ZeroVector
                   ELSE ProviderEmbed(CombinedText(call.file[i]))}

\* What holds instead: the failure is absorbed per batch of batch_size texts.
C15_FailureAbsorbedPerBatch ==
    (Ended("build") /\ call.bad # {}) =>
        /\ ret.kind = "returned"
        /\ \A i \in 1..Len(call.file) :
              StoredVectors(collection, i) =
                  {IF \E j \in call.bad : (j - 1) \div BatchSize = (i - 1) \div BatchSize
                   THEN ZeroVector
                   ELSE ProviderEmbed(CombinedText(call.file[i]))}

\* v points the way q does (equality in Cauchy-Schwarz, positive product).
SameDirection(q, v) == Dot(q, v) > 0 /\ Dot(q, v) * Dot(q, v) = Dot(q, q) * Dot(v, v)

\* The positions of the results that carry the payload of point p.
PositionsOf(p, results) == {i \in 1..Len(results) : PayloadOf(results[i]) = p.payload}

\* C16 (as claimed): an unfiltered search with the embedding a stored record
\* was upserted with returns that record first, with the maximal score.
C16_Original ==
    (Ended("search") /\ call.filters = <<>>) =>
        \A p \in collection :
            p.vector = call.query_vector =>
                /\ 1 \in PositionsOf(p, ret.value)
                /\ ret.value[1].relevance_score = ScoreScale

\* C16 (amended): an unfiltered search with the embedding v # 0 a stored
\* record was upserted with returns first a record whose embedding has the
\* direction of v, with the maximal score; the record itself is returned with
\* that score when limit is at least the number of stored records of that
\* direction, and before every result of another direction. A search with
\* the all-zero vector scores every result 0.
C16_RoundTrip ==
    (Ended("search") /\ call.filters = <<>>) =>
        \A p \in collection :
            p.vector = call.query_vector =>
              IF call.query_vector = ZeroVector
              THEN \A i \in 1..Len(ret.value) : ret.value[i].relevance_score = 0
              ELSE
                LET top == {r \in collection : SameDirection(call.query_vector, r.vector)}
                IN /\ ret.value # <<>>
                   /\ ret.value[1].relevance_score = ScoreScale
                   /\ \E r \in top : 1 \in PositionsOf(r, ret.value)
                   /\ Cardinality(top) <= call.limit =>
                         \E i \in PositionsOf(p, ret.value) :
                             /\ ret.value[i].relevance_score = ScoreScale
                             /\ \A j \in 1..Len(ret.value) :
                                   (\A r \in top : j \notin PositionsOf(r, ret.value)) => i < j

\* The record found first although a point of another direction has a lower
\* id, and a second record of its direction is stored.
C16_Witness ==
    /\ Ended("search") /\ call.filters = <<>> /\ call.query_vector # ZeroVector
    /\ \E p \in collection, r \in collection :
          /\ p.vector = call.query_vector
          /\ r.id < p.id
          /\ r.vector # ZeroVector /\ ~SameDirection(call.query_vector, r.vector)
          /\ PositionsOf(p, ret.value) = {1}
          /\ PositionsOf(r, ret.value) # {}

\* Point ids p.id, r.id of stored points that carry the payloads of the
\* results at positions i and j.
IdPairs(points, results, i, j) ==
    {<<p.id, r.id>> : p \in {x \in points : x.payload = PayloadOf(results[i])},
                      r \in {x \in points : x.payload = PayloadOf(results[j])}}

\* The catalog position of a sample assessment.
SamplePosition(name) == CHOOSE i \in 1..Len(SampleAssessments) : SampleAssessments[i].name = name

\* Equally scored results of the standalone recommend keep catalog order.
StandaloneTiesInCatalogOrder ==
    Ended("standalone_recommend") =>
        \A i \in 1..Len(ret.value), j \in 1..Len(ret.value) :
            (i < j /\ ret.value[i].relevance_score = ret.value[j].relevance_score) =>
                SamplePosition(ret.value[i].name) < SamplePosition(ret.value[j].name)

C17_WitnessEngine ==
    /\ Ended("search")
    /\ \E i \in 1..Len(ret.value), j \in 1..Len(ret.value) :
          /\ i < j
          /\ ret.value[i].relevance_score = ret.value[j].relevance_score
          /\ \A ids \in IdPairs(collection, ret.value, i, j) : ids[1] > ids[2]

-----------------------------------------------------------------------------
(* Properties of the filters *)

SchemaKeys == {"remote_testing", "adaptive_irt", "test_type"}

\* An item of a filters dict that asks for nothing in recommend: a key outside
\* the three filter keys, a None value, an empty test_type.
AsksNothing(item) ==
    \/ item.key \notin SchemaKeys
    \/ item.value = NoneVal
    \/ item.key = "test_type" /\ PyLen(item.value) = 0

\* The text recommend embeds.
EmbeddedText(query, enhanced, rewriteOK) ==
    IF enhanced /\ rewriteOK THEN query \o Rewrite(query) ELSE query

\* C18: recommend with a filters dict returns what it returns for the dict
\* without its items of unknown key, None value or empty test_type list, that
\* is the search of the embedded text under the remaining items; nothing is
\* raised.
C18_UnknownKeysIgnored ==
    Ended("recommend") =>
        LET kept == SelectSeq(call.filters, LAMBDA item : ~AsksNothing(item))
        IN /\ ret.kind = "returned"
           /\ ret.value = RecommendOutcome(collection, call.query, call.top_k, call.enhanced,
                                           kept, call.rewriteOK, call.embedOK).value
           /\ ret.value = Search(collection,
                                 GetEmbedding(EmbeddedText(call.query, call.enhanced,
                                                           call.rewriteOK), call.embedOK),
                                 call.top_k, kept)

\* A recommend with an unknown key beside a filter that left a record out;
\* handing the unknown key to the store would have returned nothing.
C18_Witness ==
    /\ Ended("recommend")
    /\ \E i \in 1..Len(call.filters) : call.filters[i].key \notin SchemaKeys
    /\ \E i \in 1..Len(call.filters) : ~AsksNothing(call.filters[i])
    /\ Len(ret.value) > 0
    /\ Len(ret.value) < call.top_k
    /\ Len(ret.value) < Cardinality(collection)

\* A recommend with a None value and a filter beside it.
C18_WitnessNone ==
    /\ Ended("recommend")
    /\ \E i \in 1..Len(call.filters) : call.filters[i].value = NoneVal
    /\ \E i \in 1..Len(call.filters) : ~AsksNothing(call.filters[i])
    /\ Len(ret.value) > 0
    /\ Len(ret.value) < Cardinality(collection)

\* The condition an item of the filters dict stands for.
ConditionOf(item) ==
    [key |-> item.key,
     match |-> IF item.key = "test_type" /\ item.value.kind = "list" THEN "any" ELSE "value",
     value |-> item.value.val]

\* The stored points whose payload holds, under the key of every condition,
\* the value asked for (one of the values asked for).
Matching(points, must) ==
    {p \in points :
        \A i \in 1..Len(must) :
            /\ must[i].key \in DOMAIN p.payload
            /\ LET held == IF must[i].key = "test_type" THEN LabelsOf(p.payload)
                           ELSE {p.payload[must[i].key]}
               IN held \cap Range(must[i].value) # {}}

\* The filter search handed to the engine is the conjunction of conds, and
\* the records returned are the best min(limit, .) of the points matching it.
CompiledTo(conds) ==
    /\ log[1].query_filter = conds
    /\ Len(ret.value) = Min(call.limit, Cardinality(Matching(collection, conds)))
    /\ \A i \in 1..Len(ret.value) :
          \E p \in Matching(collection, conds) : p.payload = PayloadOf(ret.value[i])

\* C19 (as claimed): every item of the filters dict compiles to one condition,
\* matches-any-of for a list-valued test_type and exact-match otherwise,
\* unknown keys included; search returns only records meeting all of them.
C19_Original ==
    Ended("search") =>
        CompiledTo([i \in 1..Len(call.filters) |-> ConditionOf(call.filters[i])])

\* C19 (amended): the same, except that an empty test_type list compiles to
\* no condition.
C19_OneConditionPerItem ==
    Ended("search") =>
        CompiledTo(LET asked == SelectSeq(call.filters, LAMBDA item :
                                    ~(item.key = "test_type" /\ item.value = List(<<>>)))
                   IN [i \in 1..Len(asked) |-> ConditionOf(asked[i])])

\* A search with an unknown key that the payloads hold and another filter;
\* the key left a record out that the other filter admits.
C19_Witness ==
    /\ Ended("search")
    /\ Len(call.filters) > 1
    /\ \E i \in 1..Len(call.filters) : call.filters[i].key \notin SchemaKeys
    /\ Len(ret.value) > 0
    /\ Len(ret.value) < call.limit
    /\ \E p \in collection :
          /\ \A i \in 1..Len(call.filters) :
                call.filters[i].key \in SchemaKeys => MeetsItem(p.payload, call.filters[i])
          /\ \A i \in 1..Len(ret.value) : p.payload # PayloadOf(ret.value[i])

-----------------------------------------------------------------------------
(* Properties of the provisioning of the collection *)

\* C20: constructing the store creates the collection, of the vector size
\* given and cosine distance, when there is none of that name; constructing it
\* when the collection exists leaves its configuration and its points as they
\* are, and succeeds when get_collection answers.
C20_CreatedOnceThenReused ==
    Ended("construct") =>
        IF call.config.exists
        THEN /\ config = call.config
             /\ collection = call.before
             /\ call.getOK => ret.kind = "returned"
        ELSE /\ ret.kind = "returned"
             /\ config = [exists |-> TRUE, size |-> call.vector_size, distance |-> "Cosine"]
             /\ collection = {}

\* A second construction, with another vector size, over a collection that
\* holds points.
C20_Witness ==
    /\ Ended("construct")
    /\ call.config.exists
    /\ call.vector_size # call.config.size
    /\ call.before # {}
    /\ ret.kind = "returned"
    /\ config = call.config /\ collection = call.before

\* The first construction.
C20_WitnessCreated ==
    /\ Ended("construct")
    /\ ~call.config.exists
    /\ config.exists /\ config.size = call.vector_size

-----------------------------------------------------------------------------
(* Properties of the embedding input *)

IsPrefix(a, b) == Len(a) <= Len(b) /\ \A i \in 1..Len(a) : a[i] = b[i]

\* The first n words of a text, all of them when it has fewer.
FirstWords(text, n) == [i \in 1..Min(n, Len(text)) |-> text[i]]

\* The positions of the log at which the embedding provider was called.
EmbedCalls == {i \in 1..Len(log) : log[i].api = "embed"}

\* C21 (as claimed): in enhanced mode with a successful rewriting call the
\* text sent to the embedding provider is the query followed by the rewritten
\* text, the query being a prefix of it; in direct mode it is the query as-is.
C21_Original ==
    (Ended("recommend") /\ (call.rewriteOK \/ ~call.enhanced)) =>
        /\ EmbedCalls # {}
        /\ \A i \in EmbedCalls :
              /\ IsPrefix(call.query, log[i].sent)
              /\ log[i].sent = IF call.enhanced THEN call.query \o Rewrite(call.query)
                               ELSE call.query

\* C21 (amended): the text handed to get_embedding is the query followed by
\* the rewritten text in enhanced mode with a successful rewriting call, the
\* query in direct mode; the text sent to the provider is the first max_tokens
\* words of it. It is that text whole, the query its prefix, when the text has
\* at most max_tokens words; for a query of more words it is the first
\* max_tokens words of the query, in either mode.
C21_EmbeddingInput ==
    (Ended("recommend") /\ (call.rewriteOK \/ ~call.enhanced)) =>
        LET text == IF call.enhanced THEN call.query \o Rewrite(call.query) ELSE call.query
        IN /\ EmbedCalls # {}
           /\ \A i \in EmbedCalls :
                 /\ log[i].input = text
                 /\ log[i].sent = FirstWords(text, MaxTokens)
                 /\ Len(text) <= MaxTokens =>
                       log[i].sent = text /\ IsPrefix(call.query, log[i].sent)
                 /\ Len(call.query) > MaxTokens =>
                       log[i].sent = FirstWords(call.query, MaxTokens)

\* An enhanced recommend whose rewritten text reached the provider behind the
\* query and changed the result.
C21_Witness ==
    /\ Ended("recommend") /\ call.enhanced /\ call.rewriteOK /\ call.embedOK
    /\ \E i \in EmbedCalls :
          /\ IsPrefix(call.query, log[i].sent)
          /\ Len(log[i].sent) > Len(call.query)
    /\ Len(ret.value) > 0
    /\ ret.value # RecommendOutcome(collection, call.query, call.top_k, FALSE,
                                    call.filters, TRUE, call.embedOK).value

\* An enhanced recommend of a query over the word budget: the provider is sent
\* a part of the query and nothing of the rewritten text.
C21_WitnessCut ==
    /\ Ended("recommend") /\ call.enhanced /\ call.rewriteOK
    /\ \E i \in EmbedCalls :
          /\ ~IsPrefix(call.query, log[i].sent)
          /\ IsPrefix(log[i].sent, call.query)

-----------------------------------------------------------------------------
(* get_embedding as a call *)

EmbedWords == {"sales", "java", "x"}

\* Texts of up to two words more than the word budget.
EmbedTexts == SeqsUpTo(EmbedWords, MaxTokens + 2)

\* get_embedding(text); the log holds the call of the provider.
GetEmbeddingCall ==
    /\ pc = "idle"
    /\ \E text \in EmbedTexts, embedOK \in BOOLEAN :
        /\ call' = [op |-> "get_embedding", text |-> text, embedOK |-> embedOK]
        /\ ret' = [kind |-> "returned", value |-> GetEmbedding(text, embedOK)]
        /\ log' = <<[api |-> "embed", input |-> text, sent |-> Truncate(text), ok |-> embedOK]>>
        /\ pc' = "done"
        /\ UNCHANGED <<config, ties, collection, built, requests>>

EmbedNext ==
    \/ GetEmbeddingCall
    \/ Deliver

EmbedSpec == Init /\ [][EmbedNext]_vars

\* C22: get_embedding sends the provider at most max_tokens words: the first
\* max_tokens words of an input of more words, in their order, and an input of
\* at most max_tokens words unchanged; the vector returned is the provider's
\* for the text sent.
C22_TruncatedToBudget ==
    Ended("get_embedding") =>
        /\ Len(log) = 1
        /\ Len(log[1].sent) <= MaxTokens
        /\ Len(call.text) > MaxTokens =>
              /\ Len(log[1].sent) = MaxTokens
              /\ \A i \in 1..MaxTokens : log[1].sent[i] = call.text[i]
        /\ Len(call.text) <= MaxTokens => log[1].sent = call.text
        /\ call.embedOK => ret.value = ProviderEmbed(FirstWords(call.text, MaxTokens))

\* A text of more words than the budget whose dropped words would have
\* changed the embedding.
C22_Witness ==
    /\ Ended("get_embedding") /\ call.embedOK
    /\ Len(call.text) > MaxTokens
    /\ Len(log[1].sent) = MaxTokens
    /\ ret.value # ProviderEmbed(call.text)
    /\ ret.value # ZeroVector

\* A text of exactly the budget, sent whole.
C22_WitnessWhole ==
    /\ Ended("get_embedding")
    /\ Len(call.text) = MaxTokens
    /\ log[1].sent = call.text

-----------------------------------------------------------------------------
(* Recommend requests served side by side, one step of the code at a time *)

\* The arguments of a recommend request and what its collaborators will do.
RequestArgs ==
    [query : Queries, top_k : {MaxBatch}, enhanced : BOOLEAN,
     filters : {<<>>, <<[key |-> "remote_testing", value |-> Str("Yes")]>>},
     rewriteOK : BOOLEAN, embedOK : BOOLEAN, searchOK : BOOLEAN]

\* Mutant of the read of query_embedding: the embedding is kept in a field of
\* the recommender, where the thread that embedded last has put its own.
QueryEmbeddingOf_Shared(reqs, t) ==
    IF \E o \in Threads \ {t} : reqs[o].at \in {"embedded", "done"}
    THEN reqs[CHOOSE o \in Threads \ {t} : reqs[o].at \in {"embedded", "done"}].query_embedding
    ELSE reqs[t].query_embedding

\* query_embedding as process_query hands it to search: a local variable of
\* the call thread t runs.
QueryEmbeddingOf(reqs, t) == reqs[t].query_embedding

\* SHLRecommender.recommend is entered.
Receive(t) ==
    /\ requests[t].at = "none"
    /\ \E args \in RequestArgs :
        /\ args.enhanced \/ args.rewriteOK
        /\ requests' = [requests EXCEPT ![t] =
               [at |-> "received", args |-> args, text |-> args.query,
                query_embedding |-> <<>>, ret |-> [kind |-> "none"], steps |-> <<>>]]
    /\ UNCHANGED <<config, ties, collection, built, pc, call, ret, log>>

\* enhanced_recommendations: enhanced_query = self._enhance_query_with_gpt(query)
EnhanceStep(t) ==
    /\ requests[t].at = "received"
    /\ requests[t].args.enhanced
    /\ requests' = [requests EXCEPT ![t] =
           [@ EXCEPT !.at = "enhanced",
                     !.text = EnhanceQueryWithGpt(@, requests[t].args.rewriteOK),
                     !.steps = Append(@, "rewrite")]]
    /\ UNCHANGED <<config, ties, collection, built, pc, call, ret, log>>

\* Mutant of the call of process_query: it is called on entry in either mode.
ProcessQueryCalledAt_OnEntry(args) == "received"

\* Where process_query is called from: by recommend on entry in direct mode,
\* by enhanced_recommendations after _enhance_query_with_gpt has returned in
\* enhanced mode.
ProcessQueryCalledAt(args) == IF args.enhanced THEN "enhanced" ELSE "received"

\* process_query: query_embedding = get_embedding(query)
EmbedStep(t) ==
    /\ requests[t].at \in {"received", "enhanced"}
    /\ requests[t].at = ProcessQueryCalledAt(requests[t].args)
    /\ requests' = [requests EXCEPT ![t] =
           [@ EXCEPT !.at = "embedded",
                     !.query_embedding = GetEmbedding(requests[t].text, requests[t].args.embedOK),
                     !.steps = Append(@, "embed")]]
    /\ UNCHANGED <<config, ties, collection, built, pc, call, ret, log>>

\* process_query: filters = self._prepare_filters(...), then
\* results = self.vector_store.search(query_embedding, limit, filters); an
\* exception of the engine is not caught on the way back.
SearchStep(t) ==
    /\ requests[t].at = "embedded"
    /\ LET args == requests[t].args
           given == args.filters
           remote_testing == IF Len(given) > 0 THEN Get(given, "remote_testing") ELSE NoneVal
           adaptive_irt == IF Len(given) > 0 THEN Get(given, "adaptive_irt") ELSE NoneVal
           test_types == IF Len(given) > 0 THEN Get(given, "test_type") ELSE NoneVal
           filters == PrepareFilters(remote_testing, adaptive_irt, test_types)
       IN requests' = [requests EXCEPT ![t] =
              [@ EXCEPT !.at = "done",
                        !.ret = IF args.searchOK
                                THEN [kind |-> "returned",
                                      value |-> Search(collection, QueryEmbeddingOf(requests, t),
                                                       args.top_k, filters)]
                                ELSE [kind |-> "raised", value |-> "UnexpectedResponse"],
                        !.steps = Append(@, "search")]]
    /\ UNCHANGED <<config, ties, collection, built, pc, call, ret, log>>

\* return recommendations: the caller has the outcome, the thread is free.
ReturnStep(t) ==
    /\ requests[t].at = "done"
    /\ requests' = [requests EXCEPT ![t] = NoRequest]
    /\ UNCHANGED <<config, ties, collection, built, pc, call, ret, log>>

\* The index the requests run against: the one a build of a full source file
\* leaves in a new collection.
ConcurrentInit ==
    /\ config = CreatedCollection(VectorSize)
    /\ ties \in TieOrders
    /\ \E df \in {f \in SourceFiles : Len(f) = MaxBatch} :
          /\ collection = BuildOutcome({}, df, {}).points
          /\ built = [valid |-> TRUE, file |-> df]
    /\ pc = "idle"
    /\ call = [op |-> "none"]
    /\ ret = [kind |-> "none"]
    /\ log = <<>>
    /\ requests = [t \in Threads |-> NoRequest]

ConcurrentNext ==
    \/ \E t \in Threads : Receive(t)
    \/ \E t \in Threads : EnhanceStep(t)
    \/ \E t \in Threads : EmbedStep(t)
    \/ \E t \in Threads : SearchStep(t)
    \/ \E t \in Threads : ReturnStep(t)

ConcurrentSpec == ConcurrentInit /\ [][ConcurrentNext]_vars

\* What a recommend request returns when it runs alone against the index.
AloneOutcome(points, args) ==
    IF args.searchOK
    THEN [kind |-> "returned",
          value |-> RecommendOutcome(points, args.query, args.top_k, args.enhanced,
                                     args.filters, args.rewriteOK, args.embedOK).value]
    ELSE [kind |-> "raised", value |-> "UnexpectedResponse"]

\* C23: however the steps of two recommend requests interleave, a request
\* that has ended holds the outcome it has when run alone against the index,
\* a request that has embedded holds the embedding of its own text, and the
\* index is the one the build left.
C23_RequestsIndependent ==
    /\ collection = BuildOutcome({}, built.file, {}).points
    /\ \A t \in Threads :
          /\ requests[t].at \in {"embedded", "done"} =>
                requests[t].query_embedding =
                    GetEmbedding(EmbeddedText(requests[t].args.query, requests[t].args.enhanced,
                                              requests[t].args.rewriteOK),
                                 requests[t].args.embedOK)
          /\ requests[t].at = "done" =>
                requests[t].ret = AloneOutcome(collection, requests[t].args)

\* A request that has searched while the other one, of another query and
\* other filters, held its embedding and had not searched yet; each of them
\* alone returns a list of its own.
C23_Witness ==
    \E t \in Threads, o \in Threads :
        /\ t # o
        /\ requests[t].at = "done" /\ requests[o].at = "embedded"
        /\ requests[t].query_embedding # requests[o].query_embedding
        /\ requests[t].args.filters # requests[o].args.filters
        /\ requests[t].ret.kind = "returned" /\ Len(requests[t].ret.value) > 0
        /\ AloneOutcome(collection, requests[o].args).kind = "returned"
        /\ AloneOutcome(collection, requests[o].args) # requests[t].ret

-----------------------------------------------------------------------------
(* Properties of the payloads of a build *)

\* The points a build has written: those of the ids of its rows.
PointsOfBuild == {p \in collection : p.id < Len(call.file)}

\* C24: every payload create_assessment_payloads produces holds test_type as
\* a list of labels, never as a single string, whether the test_type of its
\* row holds one label or several.
C24_TestTypeMultiValued ==
    (Ended("build") /\ ret.kind = "returned") =>
        \A p \in PointsOfBuild : p.payload.test_type.kind = "list"

\* What holds instead: test_type is a list exactly for the rows whose
\* test_type holds a comma, and a single string for the others.
C24_ScalarWithoutComma ==
    (Ended("build") /\ ret.kind = "returned") =>
        \A p \in PointsOfBuild :
            p.payload.test_type.kind =
                IF "," \in Range(call.file[p.id + 1].test_type) THEN "list" ELSE "str"

-----------------------------------------------------------------------------
(* Properties of the detail entries of an evaluation run *)

\* C25: evaluate_recommender retains one entry per test query, in the order
\* of the test queries; the entry holds the query, its relevant names, the
\* names of the recommendations in rank order, at most k of them, and the
\* recall and MAP of these recommendations, which are the results of the
\* unfiltered search of limit k with the embedding of the query text; the
\* test queries are after the run what they were before.
C25_DetailPerQuery ==
    Ended("evaluate") =>
        LET entries == ret.value.queries
        IN /\ Len(entries) = Len(call.test_queries)
           /\ call.after = call.test_queries
           /\ \A i \in 1..Len(entries) :
                 \A embedding \in {GetEmbedding(EmbeddedText(call.test_queries[i].query,
                                                              call.use_enhanced, call.providerOK),
                                                 call.providerOK)} :
                 \A recs \in {Search(collection, embedding, call.k, <<>>)} :
                    /\ entries[i].query = call.test_queries[i].query
                    /\ entries[i].relevant_assessments = call.test_queries[i].relevant_assessments
                    /\ Len(entries[i].recommendations) <= call.k
                    /\ Len(entries[i].recommendations) = Len(recs)
                    /\ \A j \in 1..Len(recs) : entries[i].recommendations[j] = recs[j].name
                    /\ \A j \in 1..(Len(recs) - 1) :
                          recs[j].relevance_score >= recs[j + 1].relevance_score
                    /\ entries[i].recall_at_k =
                          CalculateRecallAtK(call.test_queries[i].relevant_assessments, recs, call.k)
                    /\ entries[i].map_at_k =
                          CalculateMapAtK(call.test_queries[i].relevant_assessments, recs, call.k)

\* A run of two different queries over more records than k, with different
\* recommendations for the two.
C25_Witness ==
    /\ Ended("evaluate")
    /\ Len(call.test_queries) = 2
    /\ call.test_queries[1].query # call.test_queries[2].query
    /\ Cardinality(collection) > call.k
    /\ Len(ret.value.queries[1].recommendations) = call.k
    /\ ret.value.queries[1].recommendations # ret.value.queries[2].recommendations
    /\ ret.value.queries[1].recall_at_k # ret.value.queries[2].recall_at_k

-----------------------------------------------------------------------------
(* Properties of the order of the steps of a request *)

\* The external calls of a request that has come to a position in the code.
StepsUpTo(at, enhanced) ==
    CASE at = "received" -> <<>>
      [] at = "enhanced" -> <<"rewrite">>
      [] at = "embedded" -> IF enhanced THEN <<"rewrite", "embed">> ELSE <<"embed">>
      [] at = "done" -> IF enhanced THEN <<"rewrite", "embed", "search">>
                        ELSE <<"embed", "search">>

\* The filters recommend and process_query prepare for the search.
PreparedFilters(given) ==
    IF Len(given) > 0
    THEN PrepareFilters(Get(given, "remote_testing"), Get(given, "adaptive_irt"),
                        Get(given, "test_type"))
    ELSE <<>>

\* C26: the external calls of a recommend request are, in order, the
\* rewriting call in enhanced mode only, one call of the embedding provider,
\* one vector search; the request ends by returning what the search returned
\* for its embedding, or by raising when the search raised.
C26_StepOrder ==
    \A t \in Threads :
        requests[t].at # "none" =>
            /\ requests[t].steps = StepsUpTo(requests[t].at, requests[t].args.enhanced)
            /\ requests[t].at # "done" => requests[t].ret.kind = "none"
            /\ requests[t].at = "done" =>
                  IF requests[t].args.searchOK
                  THEN requests[t].ret =
                           [kind |-> "returned",
                            value |-> Search(collection, requests[t].query_embedding,
                                             requests[t].args.top_k,
                                             PreparedFilters(requests[t].args.filters))]
                  ELSE requests[t].ret.kind = "raised"

\* An enhanced request whose rewriting call and embedding call both failed:
\* it went through the three calls and returned the list of the search.
C26_Witness ==
    \E t \in Threads :
        /\ requests[t].at = "done"
        /\ requests[t].args.enhanced
        /\ ~requests[t].args.rewriteOK /\ ~requests[t].args.embedOK
        /\ requests[t].steps = <<"rewrite", "embed", "search">>
        /\ requests[t].ret.kind = "returned" /\ Len(requests[t].ret.value) > 0

\* A request that ended by raising, after its embedding and its search call.
C26_WitnessRaised ==
    \E t \in Threads :
        /\ requests[t].at = "done"
        /\ requests[t].ret.kind = "raised"
        /\ requests[t].steps = <<"embed", "search">>

\* The positions a request goes through, one after the other.
NextPositions(at, enhanced) ==
    CASE at = "none" -> {"received"}
      [] at = "received" -> IF enhanced THEN {"enhanced"} ELSE {"embedded"}
      [] at = "enhanced" -> {"embedded"}
      [] at = "embedded" -> {"done"}
      [] at = "done" -> {"none"}

\* Every step of a request leads from a position to the next one.
C26_PositionsInOrder ==
    [][\A t \in Threads :
          requests'[t] # requests[t] =>
              requests'[t].at \in
                  NextPositions(requests[t].at,
                                IF requests[t].at = "none" THEN requests'[t].args.enhanced
                                ELSE requests[t].args.enhanced)]_vars

-----------------------------------------------------------------------------
(* Properties of the points a write leaves *)

\* The points of ids from n on.
FromId(points, n) == {p \in points : p.id >= n}

\* The names an unfiltered search of every stored point returns.
SearchableNames(points, q) ==
    LET results == Search(points, q, Cardinality(points), <<>>)
    IN {results[i].name : i \in 1..Len(results)}

\* C27: add_vectors with n pairs, when it returns, has written the points of
\* ids 0..n-1, the i-th pair under id i-1, and left the points of ids >= n as
\* they were; when it raises it has written nothing. A build of m rows over a
\* collection leaves every point of id >= m stored, and an unfiltered search
\* of limit the number of points returns it; a build that raises (a file
\* without rows) leaves every point stored.
C27_StaleTailKept ==
    /\ Ended("add_vectors") =>
          LET n == Min(Len(call.vectors), Len(call.payloads))
          IN IF ret.kind = "returned"
             THEN /\ collection \ FromId(collection, n) =
                        {[id |-> i - 1, vector |-> call.vectors[i], payload |-> call.payloads[i]] :
                            i \in 1..n}
                  /\ FromId(collection, n) = FromId(call.before, n)
             ELSE collection = call.before
    /\ (Ended("build") /\ ret.kind = "returned") =>
          LET m == Len(call.file)
          IN /\ {p.id : p \in collection \ FromId(collection, m)} = 0..(m - 1)
             /\ FromId(collection, m) = FromId(call.before, m)
             /\ \A p \in FromId(call.before, m), q \in QueryVectors :
                   p.payload.name \in SearchableNames(collection, q)
    /\ (Ended("build") /\ ret.kind = "raised") => collection = call.before

\* A build of m rows over the collection a build of n > m rows had left: a
\* record of the first build that is not in the second file is still stored
\* and returned by a search.
C27_Witness ==
    /\ Ended("build") /\ ret.kind = "returned"
    /\ Len(call.file) >= 1
    /\ \E f \in SourceFiles :
          /\ Len(f) > Len(call.file)
          /\ call.before = BuildOutcome({}, f, {}).points
    /\ \E p \in collection :
          /\ p.id >= Len(call.file)
          /\ \A i \in 1..Len(call.file) : call.file[i].name # p.payload.name
          /\ p.payload.name \in SearchableNames(collection, UnitVector(1))

\* An add_vectors of fewer pairs than points stored, that returned.
C27_WitnessAddVectors ==
    /\ Ended("add_vectors") /\ ret.kind = "returned"
    /\ FromId(call.before, Min(Len(call.vectors), Len(call.payloads))) # {}
    /\ collection # call.before

-----------------------------------------------------------------------------
(* batch_get_embeddings as a call, its loop batch by batch *)

\* Mutant of the loop: a batch whose call raises adds nothing.
RECURSIVE BatchLoop_DropFailed(_, _, _, _)
BatchLoop_DropFailed(texts, batch_size, failed, i) ==
    IF i >= Len(texts) THEN <<>>
    ELSE LET batch == SubSeq(texts, i + 1, Min(i + batch_size, Len(texts)))
             batch_embeddings == IF i \in failed THEN <<>>
                                 ELSE [j \in 1..Len(batch) |-> ProviderEmbed(batch[j])]
         IN batch_embeddings \o BatchLoop_DropFailed(texts, batch_size, failed, i + batch_size)

\* The loop of batch_get_embeddings from index i on: what is added to
\* all_embeddings for batch = texts[i:i+batch_size] and the batches after it.
RECURSIVE BatchLoop(_, _, _, _)
BatchLoop(texts, batch_size, failed, i) ==
    IF i >= Len(texts) THEN <<>>
    ELSE LET batch == SubSeq(texts, i + 1, Min(i + batch_size, Len(texts)))
             batch_embeddings == IF i \in failed
                                 THEN [j \in 1..Len(batch) |-> ZeroVector]
                                 ELSE [j \in 1..Len(batch) |-> ProviderEmbed(batch[j])]
         IN batch_embeddings \o BatchLoop(texts, batch_size, failed, i + batch_size)

\* The start indices of the batches: range(0, len(texts), batch_size).
BatchStarts(n, batch_size) == {i \in 0..(n - 1) : i % batch_size = 0}

BatchTexts == {<<"sales">>, <<"java">>, <<"sales", "java">>}

\* batch_get_embeddings(texts, batch_size=batch_size); failed are the batches
\* whose provider call raises.
BatchGetEmbeddingsCall ==
    /\ pc = "idle"
    /\ \E texts \in SeqsUpTo(BatchTexts, MaxBatch + 2), batch_size \in 1..(MaxBatch + 3) :
       \E failed \in SUBSET BatchStarts(Len(texts), batch_size) :
        /\ call' = [op |-> "batch_get_embeddings", texts |-> texts,
                    batch_size |-> batch_size, failed |-> failed]
        /\ ret' = [kind |-> "returned", value |-> BatchLoop(texts, batch_size, failed, 0)]
        /\ log' = <<>>
        /\ pc' = "done"
        /\ UNCHANGED <<config, ties, collection, built, requests>>

BatchNext ==
    \/ BatchGetEmbeddingsCall
    \/ Deliver

BatchSpec == Init /\ [][BatchNext]_vars

\* The start index of the batch that holds the text at (1-based) position i.
BatchOf(i, batch_size) == ((i - 1) \div batch_size) * batch_size

\* C28: batch_get_embeddings returns as many vectors as there are texts; the
\* vector at position i is the provider's embedding of texts[i], or the zero
\* vector when the call of the batch of texts[i] raised, whatever the batch
\* size and the batches that fail.
C28_AlignedWithTexts ==
    Ended("batch_get_embeddings") =>
        /\ ret.kind = "returned"
        /\ Len(ret.value) = Len(call.texts)
        /\ \A i \in 1..Len(call.texts) :
              ret.value[i] = IF BatchOf(i, call.batch_size) \in call.failed
                             THEN ZeroVector
                             ELSE ProviderEmbed(call.texts[i])
        /\ ret.value = BatchGetEmbeddings(call.texts, call.batch_size, call.failed)

\* A call whose first batch failed and whose last batch, a shorter one,
\* succeeded with an embedding that differs from those of the failed texts.
C28_Witness ==
    /\ Ended("batch_get_embeddings")
    /\ 0 \in call.failed
    /\ Len(call.texts) % call.batch_size # 0
    /\ Len(call.texts) > call.batch_size /\ call.batch_size > 1
    /\ LET n == Len(call.texts)
       IN /\ BatchOf(n, call.batch_size) \notin call.failed
          /\ ret.value[n] = ProviderEmbed(call.texts[n])
          /\ ret.value[n] # ProviderEmbed(call.texts[1])
          /\ ret.value[1] = ZeroVector

-----------------------------------------------------------------------------
(* Relations between the metrics *)

\* a <= b, for fractions of positive denominator.
FractionLeq(a, b) == a.num * b.den <= b.num * a.den

\* 0 < a
Positive(a) == a.num > 0 /\ a.den > 0

\* C29: for a non-empty relevant list and a retrieved sequence, the recall at
\* k is at least the recall at every smaller k >= 1, and at every k >= 1 the
\* MAP is greater than 0 exactly when the recall is.
C29_RecallMonotoneMapPositive ==
    /\ (Ended("recall_at_k") /\ call.relevant # <<>>) =>
          /\ ret.value.den > 0
          /\ \A k2 \in 1..call.k :
                FractionLeq(CalculateRecallAtK(call.relevant, call.retrieved, k2), ret.value)
          /\ Positive(ret.value) <=>
                Positive(CalculateMapAtK(call.relevant, call.retrieved, call.k))
    /\ (Ended("map_at_k") /\ call.relevant # <<>>) =>
          /\ ret.value.den > 0
          /\ Positive(ret.value) <=>
                Positive(CalculateRecallAtK(call.relevant, call.retrieved, call.k))

\* A recall that grew with k: positive at a smaller k, greater at this one,
\* the first retrieved name not being relevant.
C29_Witness ==
    /\ Ended("recall_at_k") /\ call.relevant # <<>>
    /\ call.retrieved # <<>> /\ call.retrieved[1].name \notin Range(call.relevant)
    /\ \E k2 \in 1..call.k :
          /\ Positive(CalculateRecallAtK(call.relevant, call.retrieved, k2))
          /\ ~FractionLeq(ret.value, CalculateRecallAtK(call.relevant, call.retrieved, k2))
    /\ Positive(CalculateMapAtK(call.relevant, call.retrieved, call.k))

\* A MAP and a recall that are both 0 at k and both positive at a greater k.
C29_WitnessZero ==
    /\ Ended("map_at_k") /\ call.relevant # <<>>
    /\ ret.value.num = 0
    /\ Positive(CalculateMapAtK(call.relevant, call.retrieved, call.k + 1))
    /\ Positive(CalculateRecallAtK(call.relevant, call.retrieved, call.k + 1))

-----------------------------------------------------------------------------
(* api.py: the /recommend-from-url endpoint *)

DefaultTopK == 5

\* dict.get(key, default)
GetOr(d, key, default) ==
    IF \E i \in 1..Len(d) : d[i].key = key
    THEN d[CHOOSE i \in 1..Len(d) : d[i].key = key].value
    ELSE default

\* `not url`: no url key, a None and an empty string.
Falsy(v) == v = NoneVal \/ v = Str("")

\* The body of the try statement of recommend_from_url: what it returns, or
\* the exception it raises, an HTTPException(400) for a request without url
\* and the Exception of SHLRecommender.recommend_from_url.
EndpointBody(points, request, fetchOK, rewriteOK, embedOK) ==
    LET url == Get(request, "url")
    IN IF Falsy(url)
       THEN [kind |-> "raised",
             value |-> [class |-> "HTTPException", status_code |-> 400,
                        detail |-> "URL is required"]]
       ELSE LET out == RecommendFromUrlOutcome(points, url.val[1],
                                               GetOr(request, "top_k", DefaultTopK),
                                               GetOr(request, "enhanced", FALSE),
                                               GetOr(request, "filters", <<>>),
                                               fetchOK, rewriteOK, embedOK)
            IN IF out.kind = "raised"
               THEN [kind |-> "raised",
                     value |-> [class |-> "Exception", status_code |-> 0, detail |-> out.value]]
               ELSE [kind |-> "returned", value |-> out.value]

\* recommend_from_url of api.py: `except Exception` catches every exception
\* of the body, an HTTPException being one, and raises HTTPException(500)
\* with the text of the exception caught.
EndpointOutcome(points, request, fetchOK, rewriteOK, embedOK) ==
    LET body == EndpointBody(points, request, fetchOK, rewriteOK, embedOK)
    IN IF body.kind = "returned"
       THEN [kind |-> "returned", status |-> 200, value |-> body.value]
       ELSE [kind |-> "raised", status |-> 500, value |-> body.value]

\* The JSON objects posted to the endpoint.
UrlRequests ==
    { <<>>,
      Item("top_k", 1),
      Item("url", NoneVal),
      Item("url", Str("")) \o Item("enhanced", TRUE),
      Item("url", Str("url")),
      Item("url", Str("url")) \o Item("top_k", 1),
      Item("url", Str("url")) \o Item("enhanced", TRUE),
      Item("url", Str("url")) \o Item("filters", Item("remote_testing", Str("Yes"))) }

\* POST /recommend-from-url
RecommendFromUrlEndpoint ==
    /\ pc = "idle"
    /\ \E request \in UrlRequests, fetchOK \in BOOLEAN, rewriteOK \in BOOLEAN,
          embedOK \in BOOLEAN :
        \E out \in {EndpointOutcome(collection, request, fetchOK, rewriteOK, embedOK)} :
           /\ call' = [op |-> "post_recommend_from_url", request |-> request,
                       fetchOK |-> fetchOK, rewriteOK |-> rewriteOK, embedOK |-> embedOK]
           /\ ret' = out
           /\ log' = <<>>
           /\ pc' = "done"
           /\ UNCHANGED <<config, ties, collection, built, requests>>

ApiNext ==
    \/ BuildEmbeddings
    \/ RecommendFromUrlEndpoint
    \/ Deliver

ApiSpec == Init /\ [][ApiNext]_vars

\* C30: a request without url is answered with status 400; status 500 is
\* the answer only to a request with a url whose fetch or recommendation
\* failed.
C30_MissingUrlIs400 ==
    Ended("post_recommend_from_url") =>
        /\ Falsy(Get(call.request, "url")) => ret.status = 400
        /\ ret.status = 500 => (~Falsy(Get(call.request, "url")) /\ ~call.fetchOK)

\* What holds instead: a request without url is answered with status 500, the
\* exception caught being the HTTPException of status 400; a request with a
\* url is answered with 500 when the fetch failed and with 200 otherwise.
C30_MissingUrlIs500 ==
    Ended("post_recommend_from_url") =>
        IF Falsy(Get(call.request, "url"))
        THEN /\ ret.status = 500
             /\ ret.value.class = "HTTPException" /\ ret.value.status_code = 400
        ELSE ret.status = (IF call.fetchOK THEN 200 ELSE 500)

\* A request without url, posted with other options, over a built catalog.
C30_ReachedMissingUrl ==
    /\ Ended("post_recommend_from_url")
    /\ call.request # <<>> /\ Falsy(Get(call.request, "url"))
    /\ collection # {}
    /\ ret.status = 500

====
